---- MODULE Spec2Model ----
(***************************************************************************)
(* Subscription tracker: the billing-period accounting engine.             *)
(*                                                                         *)
(* The model covers the subscriptions table and the config table, the     *)
(* spending summary of internal/service/spending.go and the renewal        *)
(* advancer of internal/service/subscription.go.  Times are Go time.Time   *)
(* values in UTC, modelled as whole seconds since 1970-01-01T00:00:00Z;     *)
(* stored dates are the texts "YYYY-MM-DD" the table holds, modelled as    *)
(* the record of their three numeric fields (or as another text).  The     *)
(* columns created_at and updated_at, which the database stamps and no     *)
(* operation of the engine reads, are left out of the rows.                *)
(***************************************************************************)
EXTENDS Integers, Sequences, FiniteSets, TLC

VARIABLES
    subs,      \* the subscriptions table: a sequence of rows in rowid order
    sqliteSeq, \* sqlite_sequence: the highest id the table has ever given out
    config,    \* the config table: key -> value text, or NoValue when absent
    summary,   \* what the CalculateForMonth calls returned, oldest first
    advLog,    \* the AdvanceRenewalDatesFrom calls made so far, oldest first
    now,       \* the wall clock: what time.Now() returns
    dbFault,   \* the database fails the dbFault-th UpdateRenewalDate from now on (0: none)
    ret,       \* the error the last service call returned ("" for nil)
    cal,       \* calendar harness: a date and what addMonth / AddDate made of it
    tuiModel,  \* the terminal program: how far it has started, and its Model
    monthArg,  \* the last ParseMonth call: its text and what it returned
    lastSync,  \* the caller of the sync service: the export it holds, the last call
    exportBuf  \* the last ExportService.Export call: its count and what it wrote

vars == <<subs, sqliteSeq, config, summary, advLog, now, dbFault, ret, cal, tuiModel,
         monthArg, lastSync, exportBuf>>

(***************************************************************************)
(* Bounds of the model.                                                    *)
(***************************************************************************)
FirstYear == 2024      \* first calendar year the dates are drawn from
NumYears == 3          \* number of calendar years the dates are drawn from
MaxMonthSteps == 12    \* addMonth applications the calendar harness makes
MaxRuns == 2           \* AdvanceRenewalDatesFrom calls in one behaviour
MaxFailAt == 1         \* which UpdateRenewalDate call of a run may fail (0: none)

Years == FirstYear .. (FirstYear + NumYears - 1)
Months == 1 .. 12

(***************************************************************************)
(* Go's time package, as far as the engine uses it.                        *)
(***************************************************************************)
IsLeap(y) == (y % 4 = 0) /\ ((y % 100 # 0) \/ (y % 400 = 0))

DaysIn(y, m) ==
    IF m = 2 THEN (IF IsLeap(y) THEN 29 ELSE 28)
    ELSE IF m \in {4, 6, 9, 11} THEN 30 ELSE 31

\* Days of a common year before the first of each month (and of month 13)
CumDays == <<0, 31, 59, 90, 120, 151, 181, 212, 243, 273, 304, 334, 365>>

\* Days of year y before the first of month m, m in 1 .. 13
DaysBefore(y, m) == CumDays[m] + (IF m > 2 /\ IsLeap(y) THEN 1 ELSE 0)

\* Leap days of the years 1 .. y
LeapsThrough(y) == (y \div 4) - (y \div 100) + (y \div 400)

\* Leap days before 1970
EpochLeaps == LeapsThrough(1969)

\* Days from 1970-01-01 to January 1st of year y
DaysToYear(y) == 365 * (y - 1970) + LeapsThrough(y - 1) - EpochLeaps

\* time.Date(y, m, d, 0, 0, 0, 0, time.UTC): month and day values outside
\* their ranges are normalised (month 13 is January of the next year, day 0
\* is the last day of the previous month, Feb 29 of a common year is Mar 1).
Date(y, m, d) ==
    LET yy == y + ((m - 1) \div 12)
        mm == ((m - 1) % 12) + 1
    IN  (DaysToYear(yy) + DaysBefore(yy, mm) + (d - 1)) * 86400

\* The calendar date of a UTC time: what t.Date() returns
Civil(t) ==
    LET days == t \div 86400
        g == 1970 + (days \div 365)
        y == IF DaysToYear(g) <= days THEN g ELSE g - 1
        yday == days - DaysToYear(y)
        e == (yday \div 31) + 1           \* the month, or the month before it
        m == IF yday >= DaysBefore(y, e + 1) THEN e + 1 ELSE e
    IN  [y |-> y, m |-> m, d |-> yday - DaysBefore(y, m) + 1]

\* t.Year(), t.Month(), t.Day()
Year(t) == Civil(t).y
Month(t) == Civil(t).m
Day(t) == Civil(t).d

\* t.AddDate(years, months, days): the clock of t is kept
AddDate(t, years, months, days) ==
    LET c == Civil(t)
    IN  Date(c.y + years, c.m + months, c.d + days) + (t % 86400)

\* No time at all: a nil *time.Time, or a result not computed yet
NoTime == 0 - 1

\* The texts "YYYY-MM-DD", as the record of their fields
DateText(y, m, d) == [form |-> "YYYY-MM-DD", y |-> y, m |-> m, d |-> d]

\* A text that is not of the form YYYY-MM-DD
Garbage == [form |-> "other", y |-> 0, m |-> 0, d |-> 0]

\* time.Parse("2006-01-02", s): the error result
ParseFails(s) ==
    \/ s.form # "YYYY-MM-DD"
    \/ s.m \notin 1 .. 12
    \/ s.d \notin 1 .. DaysIn(s.y, s.m)

\* time.Parse("2006-01-02", s): the time, when there is no error
Parse(s) == Date(s.y, s.m, s.d)

\* t.Format("2006-01-02")
Format(t) == LET c == Civil(t) IN DateText(c.y, c.m, c.d)

(***************************************************************************)
(* internal/service/subscription.go: calendar arithmetic of the advancer   *)
(***************************************************************************)
addMonthNoYearRoll(t) ==
    LET c == Civil(t)
        month == IF c.m + 1 > 12 THEN 1 ELSE c.m + 1
        year == c.y
        lastDayOfMonth == Day(Date(year, month + 1, 0))
        day == IF c.d > lastDayOfMonth THEN lastDayOfMonth ELSE c.d
    IN  Date(year, month, day)

\* addMonth without the clamp of the day to the new month
addMonthNoClamp(t) ==
    LET c == Civil(t)
        month == IF c.m + 1 > 12 THEN 1 ELSE c.m + 1
        year == IF c.m + 1 > 12 THEN c.y + 1 ELSE c.y
    IN  Date(year, month, c.d)

\* addMonth adds one month to the date, clamping the day to the new month
addMonth(t) ==
    LET c == Civil(t)
        month == IF c.m + 1 > 12 THEN 1 ELSE c.m + 1
        year == IF c.m + 1 > 12 THEN c.y + 1 ELSE c.y
        lastDayOfMonth == Day(Date(year, month + 1, 0))
        day == IF c.d > lastDayOfMonth THEN lastDayOfMonth ELSE c.d
    IN  Date(year, month, day)

\* The yearly step of CalculateNextRenewalDate: newDate.AddDate(1, 0, 0)
addYear(t) == AddDate(t, 1, 0, 0)

(***************************************************************************)
(* The database: the subscriptions table and the config table.             *)
(* A row is [id, name, amount, currency, cycle, date]; amount is in        *)
(* cents, the currency is its text, name is                                *)
(* a number standing for a text (texts compare as their numbers do), date  *)
(* is the nullable column next_renewal_date: [valid, str].                 *)
(***************************************************************************)
\* A config value is NoValue (no row for the key), NoNumber (a text that is
\* no number) or NumberText(n), the decimal text of n; salaries are in cents.
NoValue == [kind |-> "absent", n |-> 0]
NoNumber == [kind |-> "text", n |-> 0]
NumberText(n) == [kind |-> "number", n |-> n]

ConfigKeyMonthCutoffDay == "month_cutoff_day"
ConfigKeyMonthlySalary == "monthly_salary"
ConfigKeys == {ConfigKeyMonthCutoffDay, ConfigKeyMonthlySalary}

NullDate == [valid |-> FALSE, str |-> Garbage]
Stored(y, m, d) == [valid |-> TRUE, str |-> DateText(y, m, d)]

\* Order of two next_renewal_date values under ORDER BY ... ASC: NULL first,
\* then the texts in text order (zero-padded fields compare as numbers; the
\* text Garbage, which starts with a letter, follows every date text).
DateColumnLeq(a, b) ==
    IF ~a.valid THEN TRUE
    ELSE IF ~b.valid THEN FALSE
    ELSE IF a.str.form = "other" THEN b.str.form = "other"
    ELSE IF b.str.form = "other" THEN TRUE
    ELSE \/ a.str.y < b.str.y
         \/ a.str.y = b.str.y /\ a.str.m < b.str.m
         \/ a.str.y = b.str.y /\ a.str.m = b.str.m /\ a.str.d <= b.str.d

\* ORDER BY <column> ASC, for the two columns the queries order by
RowLeq(column, a, b) ==
    IF column = "name" THEN a.name <= b.name ELSE DateColumnLeq(a.date, b.date)

RECURSIVE InsertSorted(_, _, _)
InsertSorted(row, sorted, column) ==
    IF sorted = << >> THEN <<row>>
    ELSE IF RowLeq(column, sorted[Len(sorted)], row) THEN Append(sorted, row)
    ELSE Append(InsertSorted(row, SubSeq(sorted, 1, Len(sorted) - 1), column),
                sorted[Len(sorted)])

RECURSIVE OrderBy(_, _)
OrderBy(rows, column) ==
    IF rows = << >> THEN << >>
    ELSE InsertSorted(rows[Len(rows)],
                      OrderBy(SubSeq(rows, 1, Len(rows) - 1), column), column)

\* The highest id of the table (0 for the empty table)
MaxId(table) ==
    IF table = << >> THEN 0
    ELSE CHOOSE id \in { table[i].id : i \in 1 .. Len(table) } :
            \A i \in 1 .. Len(table) : table[i].id <= id

IsMonthly(row) == row.cycle = "monthly"
IsYearly(row) == row.cycle = "yearly"

\* SELECT * FROM subscriptions ORDER BY name ASC
ListSubscriptions(table) == OrderBy(table, "name")

\* SELECT * FROM subscriptions WHERE billing_cycle = 'monthly' ORDER BY name ASC
ListMonthlySubscriptions(table) == OrderBy(SelectSeq(table, IsMonthly), "name")

\* SELECT * FROM subscriptions WHERE billing_cycle = 'yearly' ORDER BY next_renewal_date ASC
ListYearlySubscriptions(table) == OrderBy(SelectSeq(table, IsYearly), "next_renewal_date")

\* UPDATE subscriptions SET next_renewal_date = ? WHERE id = ?
UpdateRenewalDate(table, id, text) ==
    LET hit == { i \in 1 .. Len(table) : table[i].id = id }
    IN  IF hit = {} THEN table
        ELSE LET i == CHOOSE i \in hit : TRUE      \* id is the primary key
             IN  [table EXCEPT ![i].date = [valid |-> TRUE, str |-> text]]

(***************************************************************************)
(* internal/service/spending.go: ConfigService                             *)
(***************************************************************************)
\* strconv.Atoi / strconv.ParseFloat: the error result, and the number
AtoiFails(value) == value.kind # "number"
Atoi(value) == value.n

\* The stored number returned whatever it is
GetMonthCutoffDayUnchecked(cfg) ==
    LET value == cfg[ConfigKeyMonthCutoffDay]
    IN  IF value = NoValue THEN 1
        ELSE IF AtoiFails(value) THEN 1
        ELSE Atoi(value)

GetMonthCutoffDay(cfg) ==
    LET value == cfg[ConfigKeyMonthCutoffDay]
    IN  IF value = NoValue THEN 1
        ELSE IF AtoiFails(value) THEN 1
        ELSE IF Atoi(value) < 1 \/ Atoi(value) > 28 THEN 1
        ELSE Atoi(value)

GetMonthlySalary(cfg) ==
    LET value == cfg[ConfigKeyMonthlySalary]
    IN  IF value = NoValue THEN 0
        ELSE IF AtoiFails(value) THEN 0
        ELSE Atoi(value)

(***************************************************************************)
(* internal/service/spending.go: SpendingService                           *)
(***************************************************************************)
isDateAfterStart(date, start, end) ==
    (date > start) /\ (date < end \/ date = end)

\* isDateInPeriod checks if a date falls within [start, end] (inclusive)
isDateInPeriod(date, start, end) ==
    (date = start \/ date > start) /\ (date < end \/ date = end)

\* The loop of calculateMonthlyRenewalInPeriod from the month `current` on
RECURSIVE RenewalFrom(_, _, _, _, _)

RECURSIVE RenewalBeforeEndMonth(_, _, _, _, _)
RenewalBeforeEndMonth(current, endMonth, renewalDay, periodStart, periodEnd) ==
    IF current >= endMonth THEN NoTime
    ELSE LET c == Civil(current)
             lastDayOfMonth == Day(Date(c.y, c.m + 1, 0))
             day == IF renewalDay > lastDayOfMonth THEN lastDayOfMonth ELSE renewalDay
             renewalDate == Date(c.y, c.m, day)
         IN  IF (renewalDate >= periodStart) /\ (renewalDate <= periodEnd)
             THEN renewalDate
             ELSE RenewalBeforeEndMonth(AddDate(current, 0, 1, 0), endMonth, renewalDay,
                                        periodStart, periodEnd)

RenewalFrom(current, endMonth, renewalDay, periodStart, periodEnd) ==
    IF current > endMonth THEN NoTime
    ELSE LET c == Civil(current)
             lastDayOfMonth == Day(Date(c.y, c.m + 1, 0))
             day == IF renewalDay > lastDayOfMonth THEN lastDayOfMonth ELSE renewalDay
             renewalDate == Date(c.y, c.m, day)
         IN  IF isDateInPeriod(renewalDate, periodStart, periodEnd)
             THEN renewalDate
             ELSE RenewalFrom(AddDate(current, 0, 1, 0), endMonth, renewalDay,
                              periodStart, periodEnd)

\* The day of the first month taken as it is, whatever the length of the month
calculateMonthlyRenewalUnclamped(renewalDay, periodStart, periodEnd) ==
    LET s == Civil(periodStart)
        renewalDate == Date(s.y, s.m, renewalDay)
    IN  IF isDateInPeriod(renewalDate, periodStart, periodEnd) THEN renewalDate ELSE NoTime

\* calculateMonthlyRenewalInPeriod: the renewal date in the period, or NoTime (nil)
calculateMonthlyRenewalInPeriod(renewalDay, periodStart, periodEnd) ==
    LET s == Civil(periodStart)
        e == Civil(periodEnd)
    IN  RenewalFrom(Date(s.y, s.m, 1), Date(e.y, e.m, 1),
                    renewalDay, periodStart, periodEnd)

YearlyRowMatchesAnyYear(sub, start, end) ==
    /\ sub.date.valid
    /\ ~ParseFails(sub.date.str)
    /\ \E y \in {Year(start), Year(end)} :
          isDateInPeriod(Date(y, sub.date.str.m, sub.date.str.d), start, end)

\* The test the loop of getYearlySubscriptionsInPeriod makes on a row
YearlyRowMatches(sub, start, end) ==
    /\ sub.date.valid
    /\ ~ParseFails(sub.date.str)
    /\ isDateInPeriod(Parse(sub.date.str), start, end)

\* The test with a row whose date is missing or does not parse taken as due
MonthlyRowMatchesUndated(sub, start, end) ==
    IF ~sub.date.valid \/ ParseFails(sub.date.str) THEN TRUE
    ELSE \/ isDateInPeriod(Parse(sub.date.str), start, end)
         \/ calculateMonthlyRenewalInPeriod(Day(Parse(sub.date.str)), start, end) # NoTime

\* The test the loop of getMonthlySubscriptionsInPeriod makes on a row
MonthlyRowMatches(sub, start, end) ==
    /\ sub.date.valid
    /\ ~ParseFails(sub.date.str)
    /\ \/ isDateInPeriod(Parse(sub.date.str), start, end)
       \/ calculateMonthlyRenewalInPeriod(Day(Parse(sub.date.str)), start, end) # NoTime

getYearlySubscriptionsInPeriod(table, start, end) ==
    LET Hit(sub) == YearlyRowMatches(sub, start, end)
    IN  SelectSeq(ListYearlySubscriptions(table), Hit)

getMonthlySubscriptionsInPeriod(table, start, end) ==
    LET Hit(sub) == MonthlyRowMatches(sub, start, end)
    IN  SelectSeq(ListMonthlySubscriptions(table), Hit)

\* The total set to each amount in turn, not added to
SumAmountsLast(rows) ==
    IF rows = << >> THEN 0 ELSE rows[Len(rows)].amount

\* The loops of CalculateForMonth that add up the amounts of the items
RECURSIVE SumAmounts(_)
SumAmounts(rows) ==
    IF rows = << >> THEN 0 ELSE rows[1].amount + SumAmounts(Tail(rows))

PeriodStartSameYear(year, month, cutoffDay) ==
    LET prevMonth == IF month - 1 < 1 THEN 12 ELSE month - 1
    IN  Date(year, prevMonth, cutoffDay)

\* Period start: cutoffDay of the previous month
PeriodStartOf(year, month, cutoffDay) ==
    LET prevMonth == IF month - 1 < 1 THEN 12 ELSE month - 1
        prevYear == IF month - 1 < 1 THEN year - 1 ELSE year
    IN  Date(prevYear, prevMonth, cutoffDay)

PeriodEndDayEarlier(year, month, cutoffDay) == Date(year, month, cutoffDay) - 86400

\* Period end: one second before cutoffDay of the given month
PeriodEndOf(year, month, cutoffDay) == Date(year, month, cutoffDay) - 1

\* Remaining computed whatever the salary is
RemainingAlways(salary, grandTotal) == salary - grandTotal

\* Remaining: salary - GrandTotal when the salary is positive; the field
\* keeps its zero value otherwise
RemainingOf(salary, grandTotal) == IF salary > 0 THEN salary - grandTotal ELSE 0

\* The months from 0 on taken
MonthOutOfRangeBelowZero(month) == month < 0 \/ month > 12

\* CalculateForMonth's first test: month < 1 || month > 12
MonthOutOfRange(month) == month < 1 \/ month > 12

\* What CalculateForMonth(year, month) returns on the database (table, cfg).
\* Money is in cents; AverageMonthly, MonthlyTotal + YearlyTotal / 12, is kept
\* exactly as the number of twelfths of a cent.
CalculateForMonthResult(table, cfg, year, month) ==
    IF MonthOutOfRange(month)
    THEN [err |-> TRUE, Year |-> year, Month |-> month]
    ELSE LET cutoffDay == GetMonthCutoffDay(cfg)
             periodStart == PeriodStartOf(year, month, cutoffDay)
             periodEnd == PeriodEndOf(year, month, cutoffDay)
             monthlySubs == getMonthlySubscriptionsInPeriod(table, periodStart, periodEnd)
             yearlySubs == getYearlySubscriptionsInPeriod(table, periodStart, periodEnd)
             monthlyTotal == SumAmounts(monthlySubs)
             yearlyTotal == SumAmounts(yearlySubs)
             salary == GetMonthlySalary(cfg)
         IN  [err |-> FALSE,
              Year |-> year,
              Month |-> month,
              CutoffDay |-> cutoffDay,
              PeriodStart |-> periodStart,
              PeriodEnd |-> periodEnd,
              MonthlyItems |-> monthlySubs,
              YearlyItems |-> yearlySubs,
              MonthlyTotal |-> monthlyTotal,
              YearlyTotal |-> yearlyTotal,
              GrandTotal |-> monthlyTotal + yearlyTotal,
              AverageMonthlyTwelfths |-> 12 * monthlyTotal + yearlyTotal,
              MonthlySalary |-> IF salary > 0 THEN salary ELSE 0,
              Remaining |-> RemainingOf(salary, monthlyTotal + yearlyTotal)]

\* A call of CalculateForMonth; summary collects what the calls returned
CalculateForMonth(year, month) ==
    /\ summary' = Append(summary, CalculateForMonthResult(subs, config, year, month))
    /\ ret' = IF summary'[Len(summary')].err THEN "invalid month" ELSE ""
    /\ UNCHANGED <<subs, sqliteSeq, config, advLog, now, dbFault, cal, tuiModel, monthArg, lastSync, exportBuf>>

(***************************************************************************)
(* internal/service/subscription.go: the renewal advancer                  *)
(***************************************************************************)
\* The monthly loop of CalculateNextRenewalDate
RECURSIVE AdvanceMonthly(_, _)

AdvanceMonthlyPastReference(newDate, referenceTime) ==
    IF newDate <= referenceTime
    THEN AdvanceMonthly(addMonth(newDate), referenceTime)
    ELSE newDate

AdvanceMonthly(newDate, referenceTime) ==
    IF newDate < referenceTime
    THEN AdvanceMonthly(addMonth(newDate), referenceTime)
    ELSE newDate

\* The yearly loop of CalculateNextRenewalDate
RECURSIVE AdvanceYearly(_, _)
AdvanceYearly(newDate, referenceTime) ==
    IF newDate < referenceTime
    THEN AdvanceYearly(addYear(newDate), referenceTime)
    ELSE newDate

\* CalculateNextRenewalDate: the next renewal date at or after the reference time
CalculateNextRenewalDate(currentRenewal, billingCycle, referenceTime) ==
    IF billingCycle = "monthly"
    THEN AdvanceMonthly(currentRenewal, referenceTime)
    ELSE AdvanceYearly(currentRenewal, referenceTime)

\* today taken as the reference time itself, its time of day kept
TodayOfWithClock(referenceTime) == referenceTime

\* today: the reference time's calendar date at 00:00:00 UTC
TodayOf(referenceTime) ==
    LET c == Civil(referenceTime) IN Date(c.y, c.m, c.d)

IsDueOrToday(sub, today) ==
    /\ sub.date.valid
    /\ ~ParseFails(sub.date.str)
    /\ Parse(sub.date.str) <= today

\* Whether the loop of AdvanceRenewalDatesFrom advances the row
IsDue(sub, today) ==
    /\ sub.date.valid
    /\ ~ParseFails(sub.date.str)
    /\ Parse(sub.date.str) < today

\* The loop of AdvanceRenewalDatesFrom over the listed rows that remain.
\* table is the table as written so far, writes the ids updated so far, fault
\* the number of the UpdateRenewalDate call of this run that fails (0: none).
RECURSIVE AdvanceLoop(_, _, _, _, _)
AdvanceLoop(rows, table, today, fault, writes) ==
    IF rows = << >> THEN [table |-> table, err |-> FALSE, writes |-> writes]
    ELSE LET sub == Head(rows)
         IN  IF ~IsDue(sub, today)
             THEN AdvanceLoop(Tail(rows), table, today, fault, writes)
             ELSE LET newDate == CalculateNextRenewalDate(Parse(sub.date.str),
                                                          sub.cycle, today)
                  IN  IF fault = Len(writes) + 1
                      THEN [table |-> table, err |-> TRUE, writes |-> writes]
                      ELSE AdvanceLoop(Tail(rows),
                                       UpdateRenewalDate(table, sub.id, Format(newDate)),
                                       today, fault, Append(writes, sub.id))

\* What AdvanceRenewalDatesFrom(referenceTime) does to the table
AdvanceResult(table, referenceTime, fault) ==
    AdvanceLoop(ListSubscriptions(table), table, TodayOf(referenceTime), fault, << >>)

\* A call of AdvanceRenewalDatesFrom: advLog records the reference time, the
\* rows the call listed, the error returned and the ids of the rows written
AdvanceRenewalDatesFrom(referenceTime) ==
    LET r == AdvanceResult(subs, referenceTime, dbFault)
    IN  /\ subs' = r.table
        /\ dbFault' = IF r.err THEN 0
                      ELSE IF dbFault = 0 THEN 0 ELSE dbFault - Len(r.writes)
        /\ advLog' = Append(advLog, [ref |-> referenceTime,
                                     listed |-> ListSubscriptions(subs),
                                     err |-> r.err,
                                     writes |-> r.writes])
        /\ ret' = IF r.err THEN "failed to update renewal date" ELSE ""
        /\ UNCHANGED <<sqliteSeq, config, summary, now, cal, tuiModel, monthArg, lastSync, exportBuf>>

\* AdvanceRenewalDates: the advancer run at the current time
AdvanceRenewalDates == AdvanceRenewalDatesFrom(now)

(***************************************************************************)
(* Databases the summary and the advancer are run on.                      *)
(***************************************************************************)
\* The terminal program not started
\* pc is "off", then "app" (app.New returned), "tui" (tui.New returned),
\* "loading" (Model.Init returned the command loadSubscriptions), "msg" (the
\* command's subscriptionsLoadedMsg is in flight) and "list" (Update took it);
\* subscriptions is Model.subscriptions, msg the rows the message carries
\* spendingView is the view Model.spendingView points to while Model.view is
\* ViewSpending (NoSpending: another view is shown), cursor Model.cursor;
\* tasks counts the load commands of the spending view that were started and
\* have not read the shown month yet, inbox holds the messages of the load
\* commands that ran and that Update has not taken yet, keys counts the
NoSpending == [open |-> FALSE]
\* left and right keys pressed in the spending view.  In the list view pc is
\* also "edit" (the edit form is shown) and "panic" (the program has stopped
\* on an index out of range); pendingKey is Model.pendingKey
NoModel == [pc |-> "off", subscriptions |-> << >>, msg |-> << >>, cursor |-> 0,
            pendingKey |-> "",
            spendingView |-> NoSpending, tasks |-> 0, inbox |-> << >>, keys |-> 0]

\* No ParseMonth call has been made.  A text is the sequence of its characters
NoArg == [called |-> FALSE, text |-> << >>, month |-> 0, err |-> ""]

\* ExportService.Export has not been called
NoExport == [called |-> FALSE]

\* The caller of the sync service has made no call
NoSync == [op |-> "none"]

\* The matcher has projected no day
NoProj == [d |-> 0, t |-> NoTime]

IdleCal == [src |-> NoTime, cur |-> NoTime, k |-> 0, yr |-> NoTime, proj |-> NoProj]

\* A row as INSERT makes it when the currency is left to its default
Row(id, name, amount, cycle, date) ==
    [id |-> id, name |-> name, amount |-> amount, currency |-> "USD",
     cycle |-> cycle, date |-> date]

Cycles == {"monthly", "yearly"}

\* One subscription of the given cycle on each of the given days of the month
\* (y, m), and three rows whose renewal date is NULL, no date text, or no
\* calendar date.
SheetStore(y, m, cycle, days) ==
    LET OnDay(row) == row.id \in days
    IN  SelectSeq([d \in 1 .. DaysIn(y, m) |-> Row(d, d, 100 + d, cycle, Stored(y, m, d))],
                  OnDay)
    \o << Row(32, 32, 7, cycle, NullDate),
          Row(33, 33, 11, cycle, [valid |-> TRUE, str |-> Garbage]),
          Row(34, 34, 13, cycle, Stored(y, 2, 30)) >>

\* The months the sheets are made for: a leap and a common year, the months
\* around the turn of the year and February
SheetYears == {FirstYear, FirstYear + 1}
SheetMonths == {1, 2, 12}

\* The databases of the service tests and of the documented scenarios
ScenarioStores ==
    LET y0 == 2025
        y1 == 2026
    IN  { << Row(1, 2, 1599, "monthly", Stored(y1, 1, 15)),
             Row(2, 3, 999, "monthly", Stored(y1, 1, 20)),
             Row(3, 1, 13900, "yearly", Stored(y1, 1, 10)),
             Row(4, 0, 59988, "yearly", Stored(y1, 6, 15)) >>,
          << Row(1, 1, 10000, "yearly", Stored(y1, 1, 5)) >>,
          << Row(1, 1, 1299, "yearly", Stored(y0, 6, 15)) >>,
          << Row(1, 1, 1299, "yearly", Stored(y0, 6, 15)),
             Row(2, 2, 500, "monthly", Stored(y0, 6, 15)) >>,
          << Row(1, 1, 1000, "monthly", Stored(y0, 12, 25)),
             Row(2, 2, 2000, "monthly", Stored(y1, 1, 10)) >>,
          << >> }

CutoffTexts == {NoValue, NoNumber} \cup { NumberText(n) : n \in 0 .. 29 }
SalaryTexts == {NoValue, NoNumber, NumberText(0), NumberText(1000), NumberText(300000)}

SummaryInit ==
    /\ \/ /\ \E y \in SheetYears, m \in SheetMonths, c \in Cycles :
                subs = SheetStore(y, m, c, 1 .. 31)
          /\ \E v \in CutoffTexts :
                config = [k \in ConfigKeys |->
                            IF k = ConfigKeyMonthCutoffDay THEN v ELSE NoValue]
       \/ /\ subs \in ScenarioStores
          /\ \E v \in CutoffTexts, w \in SalaryTexts :
                config = [k \in ConfigKeys |->
                            IF k = ConfigKeyMonthCutoffDay THEN v ELSE w]
    /\ summary = << >>
    /\ advLog = << >>
    /\ now = Date(FirstYear, 1, 1)
    /\ dbFault = 0
    /\ ret = ""
    /\ sqliteSeq = MaxId(subs)
    /\ cal = IdleCal
    /\ tuiModel = NoModel
    /\ monthArg = NoArg
    /\ lastSync = NoSync
    /\ exportBuf = NoExport

\* One summary is asked for, for any label and also for a month out of range
SummaryNext ==
    /\ summary = << >>
    /\ \E year \in Years, month \in (0 - 1) .. 13 : CalculateForMonth(year, month)

SpecSummary == SummaryInit /\ [][SummaryNext]_vars

\* The label after (year, month)
NextLabel(year, month) ==
    IF month = 12 THEN <<year + 1, 1>> ELSE <<year, month + 1>>

PeriodInit ==
    /\ subs = << >>
    /\ \E v \in CutoffTexts :
          config = [k \in ConfigKeys |->
                      IF k = ConfigKeyMonthCutoffDay THEN v ELSE NoValue]
    /\ summary = << >>
    /\ advLog = << >>
    /\ now = Date(FirstYear, 1, 1)
    /\ dbFault = 0
    /\ ret = ""
    /\ sqliteSeq = MaxId(subs)
    /\ cal = IdleCal
    /\ tuiModel = NoModel
    /\ monthArg = NoArg
    /\ lastSync = NoSync
    /\ exportBuf = NoExport

\* A summary is asked for a label
PeriodFirst ==
    /\ summary = << >>
    /\ \E year \in Years, month \in Months : CalculateForMonth(year, month)

\* and then one for the label that follows it
PeriodSecond ==
    /\ Len(summary) = 1
    /\ LET next == NextLabel(summary[1].Year, summary[1].Month)
       IN  CalculateForMonth(next[1], next[2])

PeriodNext == PeriodFirst \/ PeriodSecond

SpecPeriod == PeriodInit /\ [][PeriodNext]_vars

\* The times the advancer is run at: the 15th and the 28th of every month of
\* the sheets' years, at midnight and in the afternoon
RefTimes ==
    { Date(y, m, d) + tod : y \in SheetYears, m \in Months, d \in {15, 28},
                            tod \in {0, 15 * 3600 + 42} }

\* The days of the month the advancer's sheets hold: around the days it is run
\* on, and the days a shorter month clamps
AdvanceDays == {1, 14, 15, 16} \cup (27 .. 31)

AdvanceInit ==
    /\ \E y \in SheetYears, m \in SheetMonths, c \in Cycles :
          subs = SheetStore(y, m, c, AdvanceDays)
    /\ config = [k \in ConfigKeys |-> NoValue]
    /\ summary = << >>
    /\ advLog = << >>
    /\ now \in RefTimes
    /\ dbFault \in 0 .. MaxFailAt
    /\ ret = ""
    /\ sqliteSeq = MaxId(subs)
    /\ cal = IdleCal
    /\ tuiModel = NoModel
    /\ monthArg = NoArg
    /\ lastSync = NoSync
    /\ exportBuf = NoExport

\* The advancer is run again and again at the same time
AdvanceNext ==
    /\ Len(advLog) < MaxRuns
    /\ AdvanceRenewalDates

SpecAdvance == AdvanceInit /\ [][AdvanceNext]_vars

(***************************************************************************)
(* Calendar harness: a date, addMonth applied to it step by step, and the  *)
(* yearly step applied to it once.                                         *)
(***************************************************************************)
IdleStore ==
    /\ tuiModel = NoModel
    /\ monthArg = NoArg
    /\ lastSync = NoSync
    /\ exportBuf = NoExport
    /\ subs = << >>
    /\ config = [k \in ConfigKeys |-> NoValue]
    /\ summary = << >>
    /\ advLog = << >>
    /\ now = Date(FirstYear, 1, 1)
    /\ dbFault = 0
    /\ ret = ""
    /\ sqliteSeq = MaxId(subs)

CalInit ==
    /\ IdleStore
    /\ \E y \in Years, m \in Months :
         \E d \in 1 .. DaysIn(y, m) :
            cal = [src |-> Date(y, m, d), cur |-> Date(y, m, d), k |-> 0, yr |-> NoTime,
                   proj |-> NoProj]

CalAddMonth ==
    /\ cal.k < MaxMonthSteps
    /\ cal' = [cal EXCEPT !.cur = addMonth(@), !.k = @ + 1]
    /\ UNCHANGED <<subs, sqliteSeq, config, summary, advLog, now, dbFault, ret, tuiModel, monthArg, lastSync, exportBuf>>

CalAddYear ==
    /\ cal.yr = NoTime
    /\ cal' = [cal EXCEPT !.yr = addYear(cal.src)]
    /\ UNCHANGED <<subs, sqliteSeq, config, summary, advLog, now, dbFault, ret, tuiModel, monthArg, lastSync, exportBuf>>

CalNext == CalAddMonth \/ CalAddYear

\* The matcher projects the renewal day d into the month after the month of
\* the date: the period is that calendar month, first to last second
CalProject(d) ==
    /\ cal.proj = NoProj
    /\ LET next == NextLabel(Year(cal.src), Month(cal.src))
           periodStart == Date(next[1], next[2], 1)
           periodEnd == Date(next[1], next[2] + 1, 1) - 1
       IN  cal' = [cal EXCEPT !.proj =
                      [d |-> d,
                       t |-> calculateMonthlyRenewalInPeriod(d, periodStart, periodEnd)]]
    /\ UNCHANGED <<subs, sqliteSeq, config, summary, advLog, now, dbFault, ret, tuiModel,
                   monthArg, lastSync, exportBuf>>

\* addMonth moves the date into the next month and the matcher projects a
\* day into that month, in either order
ProjectNext ==
    \/ cal.k = 0 /\ CalAddMonth
    \/ \E d \in 1 .. 31 : CalProject(d)

SpecProject == CalInit /\ [][ProjectNext]_vars

SpecCal == CalInit /\ [][CalNext]_vars

(***************************************************************************)
(* internal/service/subscription.go and spending.go: the operations that   *)
(* write the tables, and the program from a fresh database.                *)
(***************************************************************************)
MaxSubs == 1           \* rows the table holds at most in the program's behaviours
MaxIds == 2            \* ids the table gives out at most in the program's behaviours

\* The text "", as a name and as a date text
EmptyName == 0 - 1
EmptyDate == [form |-> "empty", y |-> 0, m |-> 0, d |-> 0]

\* CreateSubscriptionInput.Validate: the error ("" for nil)
ValidateCreate(input) ==
    IF input.Name = EmptyName THEN "name is required"
    ELSE IF input.Amount <= 0 THEN "amount must be positive"
    ELSE IF input.BillingCycle # "monthly" /\ input.BillingCycle # "yearly"
         THEN "billing cycle must be 'monthly' or 'yearly'"
    ELSE IF input.NextRenewalDate = EmptyDate THEN "renewal date is required"
    ELSE IF ParseFails(input.NextRenewalDate) THEN "invalid date format, use YYYY-MM-DD"
    ELSE ""

\* UpdateSubscriptionInput.Validate: the error ("" for nil)
ValidateUpdate(input) ==
    IF input.ID <= 0 THEN "invalid subscription ID"
    ELSE ValidateCreate(input)

\* SubscriptionService.Create: Validate, which turns an empty currency into
\* USD, then INSERT; AUTOINCREMENT gives the row an id above every id given
Create(input) ==
    LET err == ValidateCreate(input)
    IN  /\ Len(subs) < MaxSubs
        /\ sqliteSeq < MaxIds
        /\ ret' = err
        /\ IF err # "" THEN UNCHANGED <<subs, sqliteSeq>>
           ELSE /\ sqliteSeq' = sqliteSeq + 1
                /\ subs' = Append(subs,
                      [id |-> sqliteSeq + 1,
                       name |-> input.Name,
                       amount |-> input.Amount,
                       currency |-> IF input.Currency = "" THEN "USD" ELSE input.Currency,
                       cycle |-> input.BillingCycle,
                       date |-> [valid |-> TRUE, str |-> input.NextRenewalDate]])
        /\ UNCHANGED <<config, summary, advLog, now, dbFault, cal, tuiModel, monthArg, lastSync, exportBuf>>

\* SubscriptionService.Update: Validate, then UPDATE ... WHERE id = ?
\* RETURNING *, which returns no row, an error, when the id is not in the table
Update(input) ==
    LET err == ValidateUpdate(input)
        hit == { i \in 1 .. Len(subs) : subs[i].id = input.ID }
    IN  /\ ret' = IF err # "" THEN err
                  ELSE IF hit = {} THEN "sql: no rows in result set"
                  ELSE ""
        /\ IF err # "" \/ hit = {} THEN UNCHANGED subs
           ELSE LET i == CHOOSE i \in hit : TRUE
                IN  subs' = [subs EXCEPT ![i].name = input.Name,
                                         ![i].amount = input.Amount,
                                         ![i].currency = input.Currency,
                                         ![i].cycle = input.BillingCycle,
                                         ![i].date = [valid |-> TRUE,
                                                      str |-> input.NextRenewalDate]]
        /\ UNCHANGED <<sqliteSeq, config, summary, advLog, now, dbFault, cal, tuiModel, monthArg, lastSync, exportBuf>>

\* SubscriptionService.Delete: DELETE FROM subscriptions WHERE id = ?
Delete(id) ==
    LET Others(row) == row.id # id
    IN  /\ subs' = SelectSeq(subs, Others)
        /\ ret' = ""
        /\ UNCHANGED <<sqliteSeq, config, summary, advLog, now, dbFault, cal, tuiModel, monthArg, lastSync, exportBuf>>

\* ConfigService.SetMonthCutoffDay
SetMonthCutoffDay(day) ==
    /\ IF day < 1 \/ day > 28
       THEN /\ ret' = "cutoff day must be between 1 and 28"
            /\ UNCHANGED config
       ELSE /\ ret' = ""
            /\ config' = [config EXCEPT ![ConfigKeyMonthCutoffDay] = NumberText(day)]
    /\ UNCHANGED <<subs, sqliteSeq, summary, advLog, now, dbFault, cal, tuiModel, monthArg, lastSync, exportBuf>>

\* ConfigService.SetMonthlySalary (the salary in cents)
SetMonthlySalary(salary) ==
    /\ IF salary < 0
       THEN /\ ret' = "salary cannot be negative"
            /\ UNCHANGED config
       ELSE /\ ret' = ""
            /\ config' = [config EXCEPT ![ConfigKeyMonthlySalary] = NumberText(salary)]
    /\ UNCHANGED <<subs, sqliteSeq, summary, advLog, now, dbFault, cal, tuiModel, monthArg, lastSync, exportBuf>>

\* The inputs the operations are called with: a valid input, and the inputs
\* that differ from it in one field
BaseInput ==
    [Name |-> 1, Amount |-> 999, Currency |-> "EUR", BillingCycle |-> "monthly",
     NextRenewalDate |-> DateText(FirstYear, 1, 31)]

CreateInputs ==
    {BaseInput}
    \cup { [BaseInput EXCEPT !.Name = EmptyName],
           [BaseInput EXCEPT !.Amount = 0],
           [BaseInput EXCEPT !.Currency = ""],
           [BaseInput EXCEPT !.BillingCycle = "weekly"] }
    \cup { [BaseInput EXCEPT !.NextRenewalDate = date] :
              date \in {EmptyDate, Garbage, DateText(FirstYear, 2, 30)} }
    \cup { [BaseInput EXCEPT !.BillingCycle = "yearly",
                             !.NextRenewalDate = DateText(FirstYear, 2, 29)] }

InputIds == 0 .. MaxIds

UpdateInputs ==
    { [ID |-> id, Name |-> input.Name, Amount |-> input.Amount,
       Currency |-> input.Currency, BillingCycle |-> input.BillingCycle,
       NextRenewalDate |-> input.NextRenewalDate] :
          id \in InputIds,
          input \in { i \in CreateInputs : i.NextRenewalDate.form = "YYYY-MM-DD" } }

\* The clock moves on, to an afternoon a month and a half later
TickTimes == { Date(FirstYear, 3, 15) + 15 * 3600 + 42 }

Tick ==
    /\ \E t \in TickTimes : t > now /\ now' = t
    /\ UNCHANGED <<subs, sqliteSeq, config, summary, advLog, dbFault, ret, cal, tuiModel, monthArg, lastSync, exportBuf>>

\* The caller drops what the last summary or advancer call returned
Forget ==
    /\ summary # << >> \/ advLog # << >>
    /\ summary' = << >>
    /\ advLog' = << >>
    /\ UNCHANGED <<subs, sqliteSeq, config, now, dbFault, ret, cal, tuiModel, monthArg, lastSync, exportBuf>>

\* The database after the migrations: no subscription, cutoff day '1'; the
\* database does not fail
Init ==
    /\ subs = << >>
    /\ sqliteSeq = 0
    /\ config = [k \in ConfigKeys |->
                   IF k = ConfigKeyMonthCutoffDay THEN NumberText(1) ELSE NoValue]
    /\ summary = << >>
    /\ advLog = << >>
    /\ now = Date(FirstYear, 1, 1)
    /\ dbFault = 0
    /\ ret = ""
    /\ cal = IdleCal
    /\ tuiModel = NoModel
    /\ monthArg = NoArg
    /\ lastSync = NoSync
    /\ exportBuf = NoExport

Next ==
    \/ \E input \in CreateInputs : Create(input)
    \/ \E input \in UpdateInputs : Update(input)
    \/ \E id \in InputIds : Delete(id)
    \/ \E day \in {0, 22, 29} : SetMonthCutoffDay(day)
    \/ \E salary \in {0 - 1, 300000} : SetMonthlySalary(salary)
    \/ /\ summary = << >> /\ advLog = << >>
       /\ \E year \in {FirstYear}, month \in {0, 2} : CalculateForMonth(year, month)
    \/ /\ summary = << >> /\ advLog = << >>
       /\ AdvanceRenewalDates
    \/ Forget
    \/ Tick

Spec == Init /\ [][Next]_vars

(***************************************************************************)
(* main.go, internal/app/app.go, internal/tui/model.go: the start of the   *)
(* terminal program on the database an earlier session left.               *)
(***************************************************************************)
\* app.New: opens the database and runs the migrations, which insert the
\* default cutoff day '1' unless the key has a row (INSERT OR IGNORE)
AppNew ==
    /\ tuiModel.pc = "off"
    /\ config' = [config EXCEPT ![ConfigKeyMonthCutoffDay] =
                     IF @ = NoValue THEN NumberText(1) ELSE @]
    /\ tuiModel' = [tuiModel EXCEPT !.pc = "app"]
    /\ UNCHANGED <<subs, sqliteSeq, summary, advLog, now, dbFault, ret, cal, monthArg, lastSync, exportBuf>>

\* tui.New: the Model in the list view, with no subscriptions yet
TuiNew ==
    /\ tuiModel.pc = "app"
    /\ tuiModel' = [tuiModel EXCEPT !.pc = "tui", !.subscriptions = << >>]
    /\ UNCHANGED <<subs, sqliteSeq, config, summary, advLog, now, dbFault, ret, cal, monthArg, lastSync, exportBuf>>

\* Model.Init: returns the command loadSubscriptions
ModelInit ==
    /\ tuiModel.pc = "tui"
    /\ tuiModel' = [tuiModel EXCEPT !.pc = "loading"]
    /\ UNCHANGED <<subs, sqliteSeq, config, summary, advLog, now, dbFault, ret, cal, monthArg, lastSync, exportBuf>>

\* Model.loadSubscriptions: lists the table into a subscriptionsLoadedMsg
loadSubscriptions ==
    /\ tuiModel.pc = "loading"
    /\ tuiModel' = [tuiModel EXCEPT !.pc = "msg", !.msg = ListSubscriptions(subs)]
    /\ UNCHANGED <<subs, sqliteSeq, config, summary, advLog, now, dbFault, ret, cal, monthArg, lastSync, exportBuf>>

\* Model.Update, case subscriptionsLoadedMsg
UpdateSubscriptionsLoaded ==
    /\ tuiModel.pc = "msg"
    /\ tuiModel' = [tuiModel EXCEPT !.pc = "list", !.subscriptions = tuiModel.msg, !.msg = << >>]
    /\ UNCHANGED <<subs, sqliteSeq, config, summary, advLog, now, dbFault, ret, cal, monthArg, lastSync, exportBuf>>

\* The database file an earlier session left, and the day the program starts
StartupInit ==
    /\ \E y \in SheetYears, m \in SheetMonths, c \in Cycles :
          subs = SheetStore(y, m, c, AdvanceDays)
    /\ sqliteSeq = MaxId(subs)
    /\ \E v \in {NoValue, NumberText(1), NumberText(22)} :
          config = [k \in ConfigKeys |->
                      IF k = ConfigKeyMonthCutoffDay THEN v ELSE NoValue]
    /\ summary = << >>
    /\ advLog = << >>
    /\ now \in RefTimes
    /\ dbFault = 0
    /\ ret = ""
    /\ cal = IdleCal
    /\ tuiModel = NoModel
    /\ monthArg = NoArg
    /\ lastSync = NoSync
    /\ exportBuf = NoExport

StartupNext ==
    \/ AppNew
    \/ TuiNew
    \/ ModelInit
    \/ loadSubscriptions
    \/ UpdateSubscriptionsLoaded

SpecStartup == StartupInit /\ [][StartupNext]_vars

(***************************************************************************)
(* internal/tui: the add form and the edit form, and                       *)
(* internal/service/sync.go: the import.  These write to the table through *)
(* the queries, not through SubscriptionService.                           *)
(***************************************************************************)

\* cycles of the forms, indexed by cycleIndex
cycles == [i \in {0, 1} |-> IF i = 0 THEN "monthly" ELSE "yearly"]

\* strings.ToUpper on the currency texts the forms are filled with
ToUpper(text) == IF text = "eur" THEN "EUR" ELSE text

\* strconv.ParseFloat on the amount field: the amount in cents
ParseFloatFails(text) == text.kind # "number"
ParseFloat(text) == text.n

\* INSERT INTO subscriptions: CHECK(billing_cycle IN ('monthly', 'yearly'))
CheckFails(params) == params.BillingCycle \notin {"monthly", "yearly"}

\* Queries.CreateSubscription: the row INSERT adds, with the id AUTOINCREMENT
\* gives it after seqNo
CreateSubscriptionRow(seqNo, params) ==
    [id |-> seqNo + 1,
     name |-> params.Name,
     amount |-> params.Amount,
     currency |-> params.Currency,
     cycle |-> params.BillingCycle,
     date |-> params.NextRenewalDate]

\* AddForm.submit: the message the command returns, errMsg or
\* createSubscriptionMsg
AddFormSubmit(form) ==
    IF form.name = EmptyName THEN [err |-> "name is required"]
    ELSE IF ParseFloatFails(form.amount) THEN [err |-> "invalid amount"]
    ELSE IF form.date = EmptyDate THEN [err |-> "renewal date is required"]
    ELSE IF ParseFails(form.date) THEN [err |-> "invalid date format (use YYYY-MM-DD)"]
    ELSE [err |-> "",
          params |-> [Name |-> form.name,
                      Amount |-> ParseFloat(form.amount),
                      Currency |-> ToUpper(form.currency),
                      BillingCycle |-> cycles[form.cycleIndex],
                      NextRenewalDate |-> [valid |-> TRUE, str |-> form.date]]]

\* EditForm.submit: the message the command returns, errMsg or
\* updateSubscriptionMsg
EditFormSubmit(form) ==
    IF ParseFloatFails(form.amount) THEN [err |-> "invalid amount"]
    ELSE IF form.date = EmptyDate THEN [err |-> "renewal date is required"]
    ELSE IF ParseFails(form.date) THEN [err |-> "invalid date format (use YYYY-MM-DD)"]
    ELSE [err |-> "",
          params |-> [ID |-> form.subID,
                      Name |-> form.name,
                      Amount |-> ParseFloat(form.amount),
                      Currency |-> ToUpper(form.currency),
                      BillingCycle |-> cycles[form.cycleIndex],
                      NextRenewalDate |-> [valid |-> TRUE, str |-> form.date]]]

\* Enter on the add form: the submit command runs and Model.Update handles
\* its message; on createSubscriptionMsg updateAdd inserts the row and
\* reloads the list
updateAdd(form) ==
    /\ tuiModel.pc = "list"
    /\ Len(subs) < MaxSubs
    /\ sqliteSeq < MaxIds
    /\ ret' = AddFormSubmit(form).err
    /\ IF ret' # "" THEN UNCHANGED <<subs, sqliteSeq, tuiModel, monthArg, lastSync, exportBuf>>
       ELSE /\ sqliteSeq' = sqliteSeq + 1
            /\ subs' = Append(subs, CreateSubscriptionRow(sqliteSeq, AddFormSubmit(form).params))
            /\ tuiModel' = [tuiModel EXCEPT !.pc = "loading"]
    /\ UNCHANGED <<config, summary, advLog, now, dbFault, cal, monthArg, lastSync, exportBuf>>

\* Enter on the edit form: on updateSubscriptionMsg updateEdit updates the
\* row with the form's id and reloads the list; UPDATE ... RETURNING gives
\* no row, an error, when the row has been deleted meanwhile
updateEdit(form) ==
    /\ tuiModel.pc = "list"
    /\ ret' = IF EditFormSubmit(form).err # "" THEN EditFormSubmit(form).err
              ELSE IF \A i \in 1 .. Len(subs) : subs[i].id # form.subID
                   THEN "sql: no rows in result set"
              ELSE ""
    /\ IF ret' # "" THEN UNCHANGED <<subs, tuiModel, monthArg, lastSync, exportBuf>>
       ELSE /\ subs' = [i \in 1 .. Len(subs) |->
                          IF subs[i].id = form.subID
                          THEN CreateSubscriptionRow(form.subID - 1, EditFormSubmit(form).params)
                          ELSE subs[i]]
            /\ tuiModel' = [tuiModel EXCEPT !.pc = "loading"]
    /\ UNCHANGED <<sqliteSeq, config, summary, advLog, now, dbFault, cal, monthArg, lastSync, exportBuf>>

\* The text opened whatever the password is
DecryptAnyPassword(encrypted, password) ==
    IF encrypted.sealed
    THEN [err |-> "", jsonData |-> encrypted.jsonData]
    ELSE [err |-> "failed to decrypt data"]

\* Decrypt: the text is decoded, the key is derived from the password and the
\* salt, and gcm.Open gives the plain text of what Encrypt sealed under the
\* same password; it fails on the tag for another password, and the decoding
\* or the tag fails for a text Encrypt did not produce
Decrypt(encrypted, password) ==
    IF encrypted.sealed /\ encrypted.password = password
    THEN [err |-> "", jsonData |-> encrypted.jsonData]
    ELSE [err |-> "failed to decrypt data"]

\* The rows importData has inserted when it returns: one per imported
\* subscription up to the first the table's CHECK rejects
RECURSIVE importRows(_, _)
importRows(seqNo, subscriptions) ==
    IF subscriptions = << >> THEN << >>
    ELSE LET sub == Head(subscriptions)
             params == [Name |-> sub.Name,
                        Amount |-> sub.Amount,
                        Currency |-> sub.Currency,
                        BillingCycle |-> sub.BillingCycle,
                        NextRenewalDate |->
                            IF sub.NextRenewalDate # EmptyDate
                            THEN [valid |-> TRUE, str |-> sub.NextRenewalDate]
                            ELSE NullDate]
         IN  IF CheckFails(params) THEN << >>
             ELSE <<CreateSubscriptionRow(seqNo, params)>>
                  \o importRows(seqNo + 1, Tail(subscriptions))

\* SyncService.importData: every row of the table is deleted, the imported
\* subscriptions are inserted as they are, and then, when every insert
\* succeeded, the imported config values are set as they are
importData(data) ==
    /\ subs' = importRows(sqliteSeq, data.Subscriptions)
    /\ sqliteSeq' = sqliteSeq + Len(subs')
    /\ IF Len(subs') < Len(data.Subscriptions)
       THEN /\ ret' = "failed to create subscription"
            /\ UNCHANGED config
       ELSE /\ ret' = ""
            /\ config' = [k \in ConfigKeys |->
                            IF data.Config[k] # NoValue THEN data.Config[k] ELSE config[k]]

\* SyncService.ImportEncrypted: Decrypt, json.Unmarshal, importData
\* (what its caller keeps of the call is the caller's)
ImportEncrypted(encrypted, password) ==
    /\ sqliteSeq + Len(encrypted.jsonData.Subscriptions) <= MaxIds
    /\ IF Decrypt(encrypted, password).err # ""
       THEN /\ ret' = Decrypt(encrypted, password).err
            /\ UNCHANGED <<subs, sqliteSeq, config>>
       ELSE IF ~Decrypt(encrypted, password).jsonData.json
       THEN /\ ret' = "failed to parse data"
            /\ UNCHANGED <<subs, sqliteSeq, config>>
       ELSE importData(Decrypt(encrypted, password).jsonData)
    /\ UNCHANGED <<summary, advLog, now, dbFault, cal, tuiModel, monthArg, exportBuf>>

\* What the forms are filled with and what is imported
AmountTexts == {NoNumber, NumberText(0), NumberText(999)}

BaseForm ==
    [name |-> 1, amount |-> NumberText(999), currency |-> "eur", cycleIndex |-> 0,
     date |-> DateText(FirstYear, 1, 31)]

AddForms ==
    { [BaseForm EXCEPT !.amount = a] : a \in AmountTexts }
    \cup { [BaseForm EXCEPT !.name = EmptyName],
           [BaseForm EXCEPT !.cycleIndex = 1] }
    \cup { [BaseForm EXCEPT !.date = d] : d \in {EmptyDate, Garbage} }

EditForms ==
    { [subID |-> id, name |-> f.name, amount |-> f.amount, currency |-> f.currency,
       cycleIndex |-> f.cycleIndex, date |-> f.date] :
          id \in 1 .. MaxIds, f \in AddForms }

SyncSubscription(amount, cycle, date) ==
    [Name |-> 1, Amount |-> amount, Currency |-> "EUR", BillingCycle |-> cycle,
     NextRenewalDate |-> date]

NoConfig == [k \in ConfigKeys |-> NoValue]

SyncDatas ==
    { [json |-> TRUE, Subscriptions |-> <<sub>>, Config |-> NoConfig] :
         sub \in { SyncSubscription(999, "monthly", DateText(FirstYear, 1, 31)),
                   SyncSubscription(0, "monthly", DateText(FirstYear, 1, 31)),
                   SyncSubscription(999, "weekly", DateText(FirstYear, 1, 31)),
                   SyncSubscription(999, "monthly", EmptyDate),
                   SyncSubscription(999, "monthly", Garbage) } }
    \cup { [json |-> TRUE, Subscriptions |-> << >>,
            Config |-> [NoConfig EXCEPT ![ConfigKeyMonthCutoffDay] = v]] :
              v \in {NoNumber, NumberText(29)} }
    \cup { [json |-> FALSE, Subscriptions |-> << >>, Config |-> NoConfig] }

Passwords == {"secret", "wrong"}

Exports ==
    { [sealed |-> TRUE, password |-> "secret", jsonData |-> data] : data \in SyncDatas }
    \cup { [sealed |-> FALSE, password |-> "secret",
            jsonData |-> [json |-> FALSE, Subscriptions |-> << >>, Config |-> NoConfig]] }

\* The running program on a fresh database: the list is shown, and the
\* table is written by the service, the forms, the import and the advancer
Started == [NoModel EXCEPT !.pc = "list"]

WritesInit ==
    /\ subs = << >>
    /\ sqliteSeq = 0
    /\ config = [k \in ConfigKeys |->
                   IF k = ConfigKeyMonthCutoffDay THEN NumberText(1) ELSE NoValue]
    /\ summary = << >>
    /\ advLog = << >>
    /\ now = Date(FirstYear, 3, 15) + 15 * 3600 + 42
    /\ dbFault = 0
    /\ ret = ""
    /\ cal = IdleCal
    /\ tuiModel = Started
    /\ monthArg = NoArg
    /\ lastSync = NoSync
    /\ exportBuf = NoExport

\* The writes are taken while the list is shown: the reload a form starts is
\* over before the next write
WritesNext ==
    \/ tuiModel.pc = "list" /\ \E input \in CreateInputs : Create(input)
    \/ tuiModel.pc = "list" /\ \E input \in UpdateInputs : Update(input)
    \/ \E form \in AddForms : updateAdd(form)
    \/ \E form \in EditForms : updateEdit(form)
    \/ /\ tuiModel.pc = "list"
       /\ \E encrypted \in Exports, password \in Passwords :
             ImportEncrypted(encrypted, password)
       /\ UNCHANGED lastSync
    \/ tuiModel.pc = "list" /\ advLog = << >> /\ AdvanceRenewalDates
    \/ tuiModel.pc = "list" /\ Forget
    \/ loadSubscriptions
    \/ UpdateSubscriptionsLoaded

SpecWrites == WritesInit /\ [][WritesNext]_vars

(***************************************************************************)
(* The config table under the setters, the import and raw writes.          *)
(***************************************************************************)

\* Queries.SetConfig: INSERT ... ON CONFLICT(key) DO UPDATE, any text
SetConfig(key, value) ==
    /\ config' = [config EXCEPT ![key] = value]
    /\ ret' = ""
    /\ UNCHANGED <<subs, sqliteSeq, summary, advLog, now, dbFault, cal, tuiModel, monthArg, lastSync, exportBuf>>

\* The days SetMonthCutoffDay is called with
SetDays == {0 - 5, 0, 1, 15, 28, 29, 100}

\* The texts written to the config table directly
RawTexts == CutoffTexts \ {NoValue}

ConfigNext ==
    \/ \E day \in SetDays : SetMonthCutoffDay(day)
    \/ \E salary \in {0 - 1, 300000} : SetMonthlySalary(salary)
    \/ \E value \in RawTexts : SetConfig(ConfigKeyMonthCutoffDay, value)
    \/ /\ \E encrypted \in Exports, password \in Passwords :
             ImportEncrypted(encrypted, password)
       /\ UNCHANGED lastSync

SpecConfig == Init /\ [][ConfigNext]_vars

(***************************************************************************)
(* internal/service/spending.go: ParseMonth                                *)
(***************************************************************************)

DecimalDigits == <<"0", "1", "2", "3", "4", "5", "6", "7", "8", "9">>
IsDigit(c) == \E i \in 1 .. 10 : DecimalDigits[i] = c
DigitValue(c) == (CHOOSE i \in 1 .. 10 : DecimalDigits[i] = c) - 1

\* ss.SkipSpace: the text without its leading blanks
RECURSIVE SkipSpace(_)
SkipSpace(text) ==
    IF text # << >> /\ Head(text) = " " THEN SkipSpace(Tail(text)) ELSE text

\* ss.scanNumber: the digits the text starts with
RECURSIVE scanNumber(_)
scanNumber(text) ==
    IF text # << >> /\ IsDigit(Head(text))
    THEN <<Head(text)>> \o scanNumber(Tail(text))
    ELSE << >>

\* strconv.ParseInt(tok, 10, 64) on a token of digits
RECURSIVE ParseInt(_)
ParseInt(tok) ==
    IF tok = << >> THEN 0
    ELSE 10 * ParseInt(SubSeq(tok, 1, Len(tok) - 1)) + DigitValue(tok[Len(tok)])

\* fmt.Sscanf(text, "%d", &month): blanks are skipped, a sign is accepted,
\* the digits that follow are the number, and what comes after them is
\* not looked at; without a digit there it fails
Sscanf(text) ==
    LET t == SkipSpace(text)
        signed == t # << >> /\ Head(t) \in {"+", "-"}
        tok == scanNumber(IF signed THEN Tail(t) ELSE t)
    IN  IF tok = << >> THEN [err |-> TRUE, n |-> 0]
        ELSE [err |-> FALSE,
              n |-> IF signed /\ Head(t) = "-" THEN 0 - ParseInt(tok) ELSE ParseInt(tok)]

\* time.Month.String()
MonthString ==
    <<<<"J", "a", "n", "u", "a", "r", "y">>,
      <<"F", "e", "b", "r", "u", "a", "r", "y">>,
      <<"M", "a", "r", "c", "h">>,
      <<"A", "p", "r", "i", "l">>,
      <<"M", "a", "y">>,
      <<"J", "u", "n", "e">>,
      <<"J", "u", "l", "y">>,
      <<"A", "u", "g", "u", "s", "t">>,
      <<"S", "e", "p", "t", "e", "m", "b", "e", "r">>,
      <<"O", "c", "t", "o", "b", "e", "r">>,
      <<"N", "o", "v", "e", "m", "b", "e", "r">>,
      <<"D", "e", "c", "e", "m", "b", "e", "r">>>>

\* ParseMonth(monthStr), called when the clock shows clock
ParseMonthResult(monthStr, clock) ==
    IF monthStr = << >> THEN [month |-> Month(clock), err |-> ""]
    ELSE IF ~Sscanf(monthStr).err
    THEN IF Sscanf(monthStr).n < 1 \/ Sscanf(monthStr).n > 12
         THEN [month |-> 0, err |-> "month must be between 1 and 12"]
         ELSE [month |-> Sscanf(monthStr).n, err |-> ""]
    ELSE IF \E i \in 1 .. 12 :
               monthStr = MonthString[i] \/ monthStr = SubSeq(MonthString[i], 1, 3)
    THEN [month |-> CHOOSE i \in 1 .. 12 :
                       monthStr = MonthString[i] \/ monthStr = SubSeq(MonthString[i], 1, 3),
          err |-> ""]
    ELSE [month |-> 0, err |-> "invalid month"]

\* A call of ParseMonth
ParseMonth(monthStr) ==
    /\ monthArg' = [called |-> TRUE,
                    text |-> monthStr,
                    month |-> ParseMonthResult(monthStr, now).month,
                    err |-> ParseMonthResult(monthStr, now).err]
    /\ ret' = monthArg'.err
    /\ UNCHANGED <<subs, sqliteSeq, config, summary, advLog, now, dbFault, cal, tuiModel, lastSync, exportBuf>>

\* The texts ParseMonth is called with
MonthTexts ==
    { <<"0">>,
      <<"1">>,
      <<"2">>,
      <<"3">>,
      <<"4">>,
      <<"5">>,
      <<"6">>,
      <<"7">>,
      <<"8">>,
      <<"9">>,
      <<"1", "0">>,
      <<"1", "1">>,
      <<"1", "2">>,
      <<"1", "3">>,
      <<>>,
      <<"5", "a", "b", "c">>,
      <<" ", "7">>,
      <<"+", "3">>,
      <<"0", "3">>,
      <<"-", "1">>,
      <<"1", "2", "t", "h">>,
      <<"1", ".", "5">>,
      <<"1", "2", "3">>,
      <<"0", "0", "7">>,
      <<"1", " ", "2">>,
      <<"x", "1">>,
      <<" ", " ">>,
      <<"+">>,
      <<"1", "2", " ">>,
      <<"J", "a", "n", "u", "a", "r", "y">>,
      <<"F", "e", "b", "r", "u", "a", "r", "y">>,
      <<"M", "a", "r", "c", "h">>,
      <<"A", "p", "r", "i", "l">>,
      <<"M", "a", "y">>,
      <<"J", "u", "n", "e">>,
      <<"J", "u", "l", "y">>,
      <<"A", "u", "g", "u", "s", "t">>,
      <<"S", "e", "p", "t", "e", "m", "b", "e", "r">>,
      <<"O", "c", "t", "o", "b", "e", "r">>,
      <<"N", "o", "v", "e", "m", "b", "e", "r">>,
      <<"D", "e", "c", "e", "m", "b", "e", "r">>,
      <<"J", "a", "n">>,
      <<"F", "e", "b">>,
      <<"M", "a", "r">>,
      <<"A", "p", "r">>,
      <<"J", "u", "n">>,
      <<"J", "u", "l">>,
      <<"A", "u", "g">>,
      <<"S", "e", "p">>,
      <<"O", "c", "t">>,
      <<"N", "o", "v">>,
      <<"D", "e", "c">>,
      <<"j", "a", "n", "u", "a", "r", "y">>,
      <<"j", "a", "n">>,
      <<"J", "A", "N">>,
      <<"J", "a", "n", "u">>,
      <<"S", "e", "p", "t">>,
      <<"i", "n", "v", "a", "l", "i", "d">>,
      <<"D", "e", "c", "e", "m", "b", "e", "r", " ">>,
      <<"m", "a", "y">> }

\* The days the calls are made on
ParseDays == { Date(FirstYear, m, 15) + 9 * 3600 : m \in {1, 6, 12} }

ParseInit ==
    /\ subs = << >>
    /\ sqliteSeq = 0
    /\ config = [k \in ConfigKeys |-> NoValue]
    /\ summary = << >>
    /\ advLog = << >>
    /\ now \in ParseDays
    /\ dbFault = 0
    /\ ret = ""
    /\ cal = IdleCal
    /\ tuiModel = NoModel
    /\ monthArg = NoArg
    /\ lastSync = NoSync
    /\ exportBuf = NoExport

ParseNext == \E monthStr \in MonthTexts : ParseMonth(monthStr)

SpecParse == ParseInit /\ [][ParseNext]_vars

(***************************************************************************)
(* internal/service/sync.go: the export, and a caller that exports and     *)
(* imports.  Version and ExportedAt of the payload, which the import does  *)
(* not read, are left out.                                                 *)
(***************************************************************************)

\* The exported subscriptions with the first one left out
gatherSubscriptionsButFirst(table) ==
    [i \in 1 .. Len(ListSubscriptions(table)) - 1 |->
        LET sub == ListSubscriptions(table)[i + 1]
        IN  [Name |-> sub.name,
             Amount |-> sub.amount,
             Currency |-> sub.currency,
             BillingCycle |-> sub.cycle,
             NextRenewalDate |-> IF sub.date.valid THEN sub.date.str ELSE EmptyDate]]

\* gatherData, the subscriptions: one SyncSubscription per row of
\* ListSubscriptions, the date text left empty for a NULL date
gatherSubscriptions(table) ==
    [i \in 1 .. Len(ListSubscriptions(table)) |->
        LET sub == ListSubscriptions(table)[i]
        IN  [Name |-> sub.name,
             Amount |-> sub.amount,
             Currency |-> sub.currency,
             BillingCycle |-> sub.cycle,
             NextRenewalDate |-> IF sub.date.valid THEN sub.date.str ELSE EmptyDate]]

\* gatherData: the subscriptions and every row of the config table;
\* json.MarshalIndent makes the text json.Unmarshal reads back
gatherData(table, cfg) ==
    [json |-> TRUE, Subscriptions |-> gatherSubscriptions(table), Config |-> cfg]

\* Encrypt: the plain text sealed under the key derived from the password
Encrypt(plaintext, password) ==
    [sealed |-> TRUE, password |-> password, jsonData |-> plaintext]

\* What ExportEncrypted(password) returns on the database (table, cfg)
ExportEncrypted(table, cfg, password) == Encrypt(gatherData(table, cfg), password)

\* The caller exports, keeps the text and remembers the database it is of
SyncExport(password) ==
    /\ lastSync' = [op |-> "export",
                    encrypted |-> ExportEncrypted(subs, config, password),
                    password |-> password,
                    exported |-> TRUE,
                    source |-> [subs |-> subs, config |-> config]]
    /\ ret' = ""
    /\ UNCHANGED <<subs, sqliteSeq, config, summary, advLog, now, dbFault, cal, tuiModel,
                   monthArg, exportBuf>>

\* The caller imports a text and remembers the call, the database it was
\* made on and, for the text it exported, the database that text is of
SyncImport(encrypted, password) ==
    /\ ImportEncrypted(encrypted, password)
    /\ lastSync' = [op |-> "import",
                    encrypted |-> encrypted,
                    password |-> password,
                    before |-> [subs |-> subs, config |-> config],
                    exported |-> /\ lastSync.op # "none"
                                 /\ lastSync.exported
                                 /\ encrypted = lastSync.encrypted,
                    source |-> IF lastSync.op # "none" /\ encrypted = lastSync.encrypted
                               THEN lastSync.source
                               ELSE [subs |-> << >>, config |-> NoConfig]]

\* The databases the caller starts on
SyncStores ==
    { << >>, << Row(1, 3, 1299, "yearly", NullDate) >> }

SyncInit ==
    /\ subs \in SyncStores
    /\ sqliteSeq = MaxId(subs)
    /\ config = [k \in ConfigKeys |->
                   IF k = ConfigKeyMonthCutoffDay THEN NumberText(1) ELSE NoValue]
    /\ summary = << >>
    /\ advLog = << >>
    /\ now = Date(FirstYear, 1, 1)
    /\ dbFault = 0
    /\ ret = ""
    /\ cal = IdleCal
    /\ tuiModel = NoModel
    /\ monthArg = NoArg
    /\ lastSync = NoSync
    /\ exportBuf = NoExport

\* The texts the caller has at hand: the one it exported and those of Exports
Held == Exports \cup (IF lastSync.op = "none" THEN {} ELSE {lastSync.encrypted})

\* The caller looks at what an import did before it goes on changing the
\* database
SyncNext ==
    \/ lastSync.op # "import" /\ Create(BaseInput)
    \/ lastSync.op # "import" /\ \E id \in InputIds : Delete(id)
    \/ lastSync.op # "import" /\ SetMonthCutoffDay(22)
    \/ lastSync.op # "import" /\ SetMonthlySalary(300000)
    \/ \E password \in Passwords : SyncExport(password)
    \/ \E encrypted \in Held, password \in Passwords : SyncImport(encrypted, password)

SpecSync == SyncInit /\ [][SyncNext]_vars

(***************************************************************************)
(* ExportService: the subscriptions written as CSV or JSON.                *)
(***************************************************************************)

FormatCSV == "csv"
FormatJSON == "json"

\* GetAllSubscriptionsForExport: the rows in name order
GetAllSubscriptionsForExport(table) == ListSubscriptions(table)

\* What exportCSV and exportJSON write for a row: its columns, the date text
\* empty for a NULL date
ExportSubscription(sub) ==
    [ID |-> sub.id,
     Name |-> sub.name,
     Amount |-> sub.amount,
     Currency |-> sub.currency,
     BillingCycle |-> sub.cycle,
     NextRenewalDate |-> IF sub.date.valid THEN sub.date.str ELSE EmptyDate]

ExportRows(table) ==
    [i \in 1 .. Len(GetAllSubscriptionsForExport(table)) |->
        ExportSubscription(GetAllSubscriptionsForExport(table)[i])]

\* What Export(w, format) returns and writes on the table: with no
\* subscription it returns 0 and nil before it looks at the format
ExportResult(table, format) ==
    IF Len(GetAllSubscriptionsForExport(table)) = 0
    THEN [count |-> 0, err |-> "", written |-> << >>]
    ELSE IF format = FormatCSV
    THEN [count |-> Len(table), err |-> "",
          written |-> <<"header">> \o ExportRows(table)]
    ELSE IF format = FormatJSON
    THEN [count |-> Len(table), err |-> "", written |-> ExportRows(table)]
    ELSE [count |-> 0, err |-> "unsupported format", written |-> << >>]

\* A call of ExportService.Export
Export(format) ==
    /\ exportBuf' = [called |-> TRUE,
                     format |-> format,
                     count |-> ExportResult(subs, format).count,
                     written |-> ExportResult(subs, format).written]
    /\ ret' = ExportResult(subs, format).err
    /\ UNCHANGED <<subs, sqliteSeq, config, summary, advLog, now, dbFault, cal, tuiModel,
                   monthArg, lastSync>>

\* The formats Export is called with
Formats == {FormatCSV, FormatJSON, "invalid", "CSV", ""}

ExportInit ==
    /\ \/ \E y \in SheetYears, m \in SheetMonths, c \in Cycles, days \in {{1, 15}, {28}} :
             subs = SheetStore(y, m, c, days)
       \/ subs \in ScenarioStores
    /\ sqliteSeq = MaxId(subs)
    /\ config = [k \in ConfigKeys |->
                   IF k = ConfigKeyMonthCutoffDay THEN NumberText(1) ELSE NoValue]
    /\ summary = << >>
    /\ advLog = << >>
    /\ now = Date(FirstYear, 1, 1)
    /\ dbFault = 0
    /\ ret = ""
    /\ cal = IdleCal
    /\ tuiModel = NoModel
    /\ monthArg = NoArg
    /\ lastSync = NoSync
    /\ exportBuf = NoExport

ExportNext == \E format \in Formats : Export(format)

SpecExport == ExportInit /\ [][ExportNext]_vars

(***************************************************************************)
(* internal/tui/spending.go: the spending view.  A command Bubble Tea is   *)
(* handed runs in a goroutine of its own while Update takes the next key   *)
(* or message; the load command reads the view's year and month through    *)
(* the view pointer when it runs.                                          *)
(***************************************************************************)
MaxTasks == 2          \* load commands in flight at most
MaxKeys == 3           \* left and right keys pressed in one view at most

\* NewSpendingView: the current month, loading
NewSpendingView(clock) ==
    [open |-> TRUE,
     month |-> Month(clock),
     year |-> Year(clock),
     cutoffDay |-> 0,
     periodStart |-> NoTime,
     periodEnd |-> NoTime,
     monthlyTotal |-> 0,
     yearlyTotal |-> 0,
     monthlySubs |-> << >>,
     yearlySubs |-> << >>,
     monthlySalary |-> 0,
     remaining |-> 0,
     loading |-> TRUE,
     err |-> ""]

\* The message the command of loadSpending makes of what CalculateForMonth
\* returned for the (year, month) it read
spendingMsg(s, year, month) ==
    IF s.err
    THEN [type |-> "spendingErrMsg", year |-> year, month |-> month]
    ELSE [type |-> "spendingLoadedMsg",
          year |-> year,
          month |-> month,
          monthlySubs |-> s.MonthlyItems,
          yearlySubs |-> s.YearlyItems,
          monthlyTotal |-> s.MonthlyTotal,
          yearlyTotal |-> s.YearlyTotal,
          cutoffDay |-> s.CutoffDay,
          periodStart |-> s.PeriodStart,
          periodEnd |-> s.PeriodEnd,
          monthlySalary |-> s.MonthlySalary,
          remaining |-> s.Remaining]

\* The message the command of loadSpending returns when it reads (year, month)
loadSpendingMsg(table, cfg, year, month) ==
    spendingMsg(CalculateForMonthResult(table, cfg, year, month), year, month)

\* updateList, key "s": the spending view is made and its Init starts a load
KeySpending ==
    /\ tuiModel.pc = "list"
    /\ ~tuiModel.spendingView.open
    /\ tuiModel' = [tuiModel EXCEPT !.spendingView = NewSpendingView(now),
                                    !.tasks = @ + 1]
    /\ UNCHANGED <<subs, sqliteSeq, config, summary, advLog, now, dbFault, ret, cal, monthArg, lastSync, exportBuf>>

\* The month the keys "left"/"h" (dir = -1) and "right"/"l" (dir = 1) show next
TurnMonth(year, month, dir) ==
    IF month + dir < 1 THEN <<year - 1, 12>>
    ELSE IF month + dir > 12 THEN <<year + 1, 1>>
    ELSE <<year, month + dir>>

\* SpendingView.Update, keys "left"/"h" and "right"/"l": the month is turned,
\* loading is set and a load is started, whether or not one is in flight
SpendingTurn(v, dir) ==
    LET next == TurnMonth(v.year, v.month, dir)
    IN  [v EXCEPT !.year = next[1], !.month = next[2], !.loading = TRUE]

KeyLeftRight(dir) ==
    /\ tuiModel.spendingView.open
    /\ tuiModel.keys < MaxKeys
    /\ tuiModel.tasks + Len(tuiModel.inbox) < MaxTasks
    /\ TurnMonth(tuiModel.spendingView.year, tuiModel.spendingView.month, dir)[1] \in Years
    /\ tuiModel' = [tuiModel EXCEPT !.spendingView = SpendingTurn(@, dir),
                                    !.tasks = @ + 1,
                                    !.keys = @ + 1]
    /\ UNCHANGED <<subs, sqliteSeq, config, summary, advLog, now, dbFault, ret, cal, monthArg, lastSync, exportBuf>>

\* The command of loadSpending runs between two calls of Update
loadSpending ==
    /\ tuiModel.tasks > 0
    /\ tuiModel' = [tuiModel EXCEPT
           !.tasks = @ - 1,
           !.inbox = Append(@, loadSpendingMsg(subs, config,
                                               tuiModel.spendingView.year,
                                               tuiModel.spendingView.month))]
    /\ UNCHANGED <<subs, sqliteSeq, config, summary, advLog, now, dbFault, ret, cal, monthArg, lastSync, exportBuf>>

\* What a command of loadSpending can read beside the old and the new month
\* when it reads year and month while Update turns the month over a year's
\* end: the two fields are written one after the other without a lock
RacingReads(year, month, dir) ==
    IF month + dir > 12
    THEN {<<year, 13>>, <<year, 1>>, <<year + 1, 12>>, <<year + 1, 13>>}
    ELSE IF month + dir < 1
    THEN {<<year, 0>>, <<year, 12>>, <<year - 1, 1>>, <<year - 1, 0>>}
    ELSE {}

\* The command of loadSpending runs while Update takes a left or right key
loadSpendingRacing(dir) ==
    /\ tuiModel.spendingView.open
    /\ tuiModel.tasks > 0
    /\ tuiModel.keys < MaxKeys
    /\ tuiModel.tasks + Len(tuiModel.inbox) < MaxTasks
    /\ TurnMonth(tuiModel.spendingView.year, tuiModel.spendingView.month, dir)[1] \in Years
    /\ \E read \in RacingReads(tuiModel.spendingView.year, tuiModel.spendingView.month, dir) :
          tuiModel' = [tuiModel EXCEPT
              !.spendingView = SpendingTurn(@, dir),
              !.keys = @ + 1,
              !.inbox = Append(@, loadSpendingMsg(subs, config, read[1], read[2]))]
    /\ UNCHANGED <<subs, sqliteSeq, config, summary, advLog, now, dbFault, ret, cal, monthArg, lastSync, exportBuf>>

\* SpendingView.Update, cases spendingLoadedMsg and spendingErrMsg
SpendingTake(v, msg) ==
    IF msg.type = "spendingErrMsg"
    THEN [v EXCEPT !.loading = FALSE, !.err = "invalid month"]
    ELSE [v EXCEPT !.loading = FALSE,
                   !.monthlySubs = msg.monthlySubs,
                   !.yearlySubs = msg.yearlySubs,
                   !.monthlyTotal = msg.monthlyTotal,
                   !.yearlyTotal = msg.yearlyTotal,
                   !.cutoffDay = msg.cutoffDay,
                   !.periodStart = msg.periodStart,
                   !.periodEnd = msg.periodEnd,
                   !.monthlySalary = msg.monthlySalary,
                   !.remaining = msg.remaining]

\* seq without its i-th element
Without(seq, i) == SubSeq(seq, 1, i - 1) \o SubSeq(seq, i + 1, Len(seq))

\* Update takes one of the messages in flight, in whatever order they come
updateSpending(i) ==
    /\ tuiModel.spendingView.open
    /\ i \in 1 .. Len(tuiModel.inbox)
    /\ tuiModel' = [tuiModel EXCEPT !.spendingView = SpendingTake(@, tuiModel.inbox[i]),
                                    !.inbox = Without(@, i)]
    /\ UNCHANGED <<subs, sqliteSeq, config, summary, advLog, now, dbFault, ret, cal, monthArg, lastSync, exportBuf>>

\* The spending view opened in the last and in the first month of a year,
\* on a database with renewals around the turn of the year
SpendingClocks == {Date(2025, 12, 15), Date(2026, 1, 10), Date(2026, 11, 3)}

SpendingInit ==
    /\ subs \in ScenarioStores
    /\ sqliteSeq = Len(subs)
    /\ config \in {NoConfig,
                   [NoConfig EXCEPT ![ConfigKeyMonthCutoffDay] = NumberText(22),
                                    ![ConfigKeyMonthlySalary] = NumberText(300000)]}
    /\ summary = << >>
    /\ advLog = << >>
    /\ now \in SpendingClocks
    /\ dbFault = 0
    /\ ret = ""
    /\ cal = IdleCal
    /\ tuiModel = Started
    /\ monthArg = NoArg
    /\ lastSync = NoSync
    /\ exportBuf = NoExport

SpendingNext ==
    \/ KeySpending
    \/ \E dir \in {0 - 1, 1} : KeyLeftRight(dir)
    \/ loadSpending
    \/ \E dir \in {0 - 1, 1} : loadSpendingRacing(dir)
    \/ \E i \in 1 .. MaxTasks : updateSpending(i)

SpecSpending == SpendingInit /\ [][SpendingNext]_vars

(***************************************************************************)
(* The list view: unnamed/part_004 updateList and deleteSubscription, and  *)
(* Model.Update of internal/tui/model.go.  Model.cursor counts from 0.     *)
(***************************************************************************)
ListKeys == {"up", "down", "g", "G", "e", "d", "r"}

\* The row under the cursor, m.subscriptions[m.cursor]; the cursor is in range
UnderCursor(m) == m.subscriptions[m.cursor + 1]

\* Whether m.subscriptions[m.cursor] is an index out of range
CursorOutOfRange(m) == m.cursor < 0 \/ m.cursor >= Len(m.subscriptions)

\* Model.updateList on a key: the Model it returns.  The command of "d",
\* deleteSubscription, answers successMsg, on which Update starts
\* loadSubscriptions ("loading"); "r" starts loadSubscriptions itself
updateListModel(m, key) ==
    IF m.pendingKey = "g" /\ key = "g"
    THEN [m EXCEPT !.pendingKey = "", !.cursor = 0]
    ELSE IF key = "up"
    THEN [m EXCEPT !.pendingKey = "", !.cursor = IF m.cursor > 0 THEN m.cursor - 1 ELSE m.cursor]
    ELSE IF key = "down"
    THEN [m EXCEPT !.pendingKey = "",
                   !.cursor = IF m.cursor < Len(m.subscriptions) - 1
                              THEN m.cursor + 1 ELSE m.cursor]
    ELSE IF key = "g"
    THEN [m EXCEPT !.pendingKey = "g"]
    ELSE IF key = "G"
    THEN [m EXCEPT !.pendingKey = "",
                   !.cursor = IF Len(m.subscriptions) > 0
                              THEN Len(m.subscriptions) - 1 ELSE m.cursor]
    ELSE IF key \in {"e", "d"} /\ Len(m.subscriptions) > 0
    THEN IF CursorOutOfRange(m) THEN [m EXCEPT !.pendingKey = "", !.pc = "panic"]
         ELSE IF key = "e" THEN [m EXCEPT !.pendingKey = "", !.pc = "edit"]
         ELSE [m EXCEPT !.pendingKey = "", !.pc = "loading"]
    ELSE IF key = "r"
    THEN [m EXCEPT !.pendingKey = "", !.pc = "loading"]
    ELSE [m EXCEPT !.pendingKey = ""]

\* DELETE FROM subscriptions WHERE id = ?
DeleteSubscription(table, id) ==
    LET Others(row) == row.id # id
    IN  SelectSeq(table, Others)

\* A key in the list view, with the command the key starts
updateList(key) ==
    /\ tuiModel.pc = "list"
    /\ tuiModel' = updateListModel(tuiModel, key)
    /\ subs' = IF key = "d" /\ tuiModel'.pc = "loading"
               THEN DeleteSubscription(subs, UnderCursor(tuiModel).id)
               ELSE subs
    /\ UNCHANGED <<sqliteSeq, config, summary, advLog, now, dbFault, ret, cal, monthArg, lastSync, exportBuf>>

\* Model.Update, key "q" in a view other than the list: back to the list
KeyQuit ==
    /\ tuiModel.pc = "edit"
    /\ tuiModel' = [tuiModel EXCEPT !.pc = "list"]
    /\ UNCHANGED <<subs, sqliteSeq, config, summary, advLog, now, dbFault, ret, cal, monthArg, lastSync, exportBuf>>

\* Databases of up to two subscriptions, listed by the running program
ListStores ==
    { << >>,
      << Row(1, 1, 999, "monthly", Stored(FirstYear, 1, 31)) >>,
      << Row(1, 2, 999, "monthly", Stored(FirstYear, 1, 31)),
         Row(2, 1, 1299, "yearly", NullDate) >> }

ListInit ==
    /\ subs \in ListStores
    /\ sqliteSeq = Len(subs)
    /\ config = NoConfig
    /\ summary = << >>
    /\ advLog = << >>
    /\ now = Date(FirstYear, 3, 15)
    /\ dbFault = 0
    /\ ret = ""
    /\ cal = IdleCal
    /\ tuiModel = [Started EXCEPT !.subscriptions = ListSubscriptions(subs)]
    /\ monthArg = NoArg
    /\ lastSync = NoSync
    /\ exportBuf = NoExport

\* Keys in the list view, the import of the sync view and the reloads
ListNext ==
    \/ \E key \in ListKeys : updateList(key)
    \/ KeyQuit
    \/ /\ tuiModel.pc = "list"
       /\ \E encrypted \in Exports, password \in Passwords :
             ImportEncrypted(encrypted, password)
       /\ UNCHANGED lastSync
    \/ loadSubscriptions
    \/ UpdateSubscriptionsLoaded

SpecList == ListInit /\ [][ListNext]_vars

(***************************************************************************)
(* internal/service/spending.go: CalculateForCurrentMonth.  The clock is   *)
(* read in UTC, the zone the periods are computed in.                      *)
(***************************************************************************)
\* The label chosen when only a day after the cutoff day counts as past it
CurrentLabelAfterCutoff(clock, cutoffDay) ==
    IF Day(clock) > cutoffDay
    THEN IF Month(clock) + 1 > 12
         THEN <<Year(clock) + 1, 1>>
         ELSE <<Year(clock), Month(clock) + 1>>
    ELSE <<Year(clock), Month(clock)>>

\* The label CalculateForCurrentMonth asks CalculateForMonth for: the month
\* that follows the clock's on and after the cutoff day, else the clock's
CurrentLabel(clock, cutoffDay) ==
    IF Day(clock) >= cutoffDay
    THEN IF Month(clock) + 1 > 12
         THEN <<Year(clock) + 1, 1>>
         ELSE <<Year(clock), Month(clock) + 1>>
    ELSE <<Year(clock), Month(clock)>>

\* A call of CalculateForCurrentMonth
CalculateForCurrentMonth ==
    /\ summary = << >>
    /\ summary' = Append(summary,
                         CalculateForMonthResult(subs, config,
                             CurrentLabel(now, GetMonthCutoffDay(config))[1],
                             CurrentLabel(now, GetMonthCutoffDay(config))[2]))
    /\ ret' = IF summary'[Len(summary')].err THEN "invalid month" ELSE ""
    /\ UNCHANGED <<subs, sqliteSeq, config, advLog, now, dbFault, cal, tuiModel, monthArg, lastSync, exportBuf>>

\* The moments the call is made at: every day of the years, at the first and
\* at the last second of the day (a day past a month's end is a day of the
\* month after it)
CurrentClocks ==
    { Date(y, m, d) + tod :
         y \in Years, m \in Months, d \in 1 .. 31, tod \in {0, 86399} }

CurrentInit ==
    /\ subs = << >>
    /\ sqliteSeq = 0
    /\ \E v \in CutoffTexts :
          config = [k \in ConfigKeys |->
                      IF k = ConfigKeyMonthCutoffDay THEN v ELSE NoValue]
    /\ summary = << >>
    /\ advLog = << >>
    /\ now \in CurrentClocks
    /\ dbFault = 0
    /\ ret = ""
    /\ cal = IdleCal
    /\ tuiModel = NoModel
    /\ monthArg = NoArg
    /\ lastSync = NoSync
    /\ exportBuf = NoExport

CurrentNext == CalculateForCurrentMonth

SpecCurrent == CurrentInit /\ [][CurrentNext]_vars

(***************************************************************************)
(* Properties                                                              *)
(***************************************************************************)
Summaries == { summary[i] : i \in 1 .. Len(summary) }
GoodSummaries == { s \in Summaries : ~s.err }
Rows(seq) == { seq[i] : i \in 1 .. Len(seq) }

\* The month before (year, month)
PrevLabel(year, month) ==
    IF month = 1 THEN <<year - 1, 12>> ELSE <<year, month - 1>>

\* Text order of date texts: a <= b
DateTextLeq(a, b) ==
    \/ a.y < b.y
    \/ a.y = b.y /\ a.m < b.m
    \/ a.y = b.y /\ a.m = b.m /\ a.d <= b.d

HasGoodDate(row) == row.date.valid /\ ~ParseFails(row.date.str)

\* C1: the period of a label ends exactly one second before the period of the
\* next label starts, for every year, month and cutoff day: consecutive
\* periods tile the calendar without gap or overlap.
C1_PeriodsTile ==
    Len(summary) = 2 =>
        /\ <<summary[2].Year, summary[2].Month>> =
              NextLabel(summary[1].Year, summary[1].Month)
        /\ summary[2].PeriodStart = summary[1].PeriodEnd + 1

\* C1 witness: the periods of December and of the January after it, cutoff 22
C1_Witness ==
    /\ Len(summary) = 2
    /\ summary[1].Month = 12 /\ summary[2].Month = 1
    /\ summary[1].CutoffDay = 22 /\ summary[2].CutoffDay = 22
    /\ summary[2].PeriodStart = summary[1].PeriodEnd + 1

\* C2: PeriodStart is the cutoff day of the previous calendar month at
\* 00:00:00 (December of year-1 for January) and PeriodEnd lies on the
\* calendar day just before the cutoff day of (year, month): cutoff 22 and
\* (2026, 1) give 2025-12-22 .. 2026-01-21, cutoff 20 gives 2025-12-20 ..
\* 2026-01-19.
C2_PeriodBounds ==
    \A s \in GoodSummaries :
        LET prev == PrevLabel(s.Year, s.Month)
            c == s.CutoffDay
        IN  /\ c \in 1 .. 28
            /\ config[ConfigKeyMonthCutoffDay] = NumberText(c) \/ c = 1
            /\ Format(s.PeriodStart) = DateText(prev[1], prev[2], c)
            /\ s.PeriodStart % 86400 = 0
            /\ Format(s.PeriodEnd) =
                  (IF c > 1 THEN DateText(s.Year, s.Month, c - 1)
                   ELSE DateText(prev[1], prev[2], DaysIn(prev[1], prev[2])))
            /\ s.PeriodEnd % 86400 = 86399
            /\ (s.Year = 2026 /\ s.Month = 1 /\ c = 22) =>
                  /\ Format(s.PeriodStart) = DateText(2025, 12, 22)
                  /\ Format(s.PeriodEnd) = DateText(2026, 1, 21)
            /\ (s.Year = 2026 /\ s.Month = 1 /\ c = 20) =>
                  /\ Format(s.PeriodStart) = DateText(2025, 12, 20)
                  /\ Format(s.PeriodEnd) = DateText(2026, 1, 19)

\* C2 witness: the summary of (2026, 1) under cutoff 22
C2_Witness ==
    \E s \in GoodSummaries :
        /\ s.Year = 2026 /\ s.Month = 1 /\ s.CutoffDay = 22
        /\ Format(s.PeriodStart) = DateText(2025, 12, 22)
        /\ Format(s.PeriodEnd) = DateText(2026, 1, 21)

\* C3: every monthly subscription with a valid stored renewal date is in
\* MonthlyItems of every summary, whatever month and year the stored date
\* lies in and also when its day-of-month is 29, 30 or 31.
C3_MonthlyAlwaysMatches ==
    \A s \in GoodSummaries :
        \A row \in Rows(subs) :
            (row.cycle = "monthly" /\ HasGoodDate(row)) => row \in Rows(s.MonthlyItems)

\* C3 witness: under cutoff 28 a subscription stored on a 31st outside the
\* period is in MonthlyItems
C3_Witness ==
    \E s \in GoodSummaries :
        /\ s.CutoffDay = 28
        /\ \E row \in Rows(s.MonthlyItems) :
              /\ row.date.str.d = 31
              /\ ~(s.PeriodStart <= Parse(row.date.str) /\ Parse(row.date.str) <= s.PeriodEnd)

\* C4: a yearly subscription is in YearlyItems iff its stored renewal date
\* lies between the first and the last day of the period, both included.
C4_YearlyIffInPeriod ==
    \A s \in GoodSummaries :
        \A row \in Rows(subs) :
            row.cycle = "yearly" =>
                (row \in Rows(s.YearlyItems)
                    <=> /\ HasGoodDate(row)
                        /\ DateTextLeq(Format(s.PeriodStart), row.date.str)
                        /\ DateTextLeq(row.date.str, Format(s.PeriodEnd)))

\* C4 witness: of the yearly subscriptions stored on the first day of the
\* period and on the day before it, the first is in YearlyItems and the
\* second is not; so for the last day of the period and the day after it
C4_Witness ==
    \E s \in GoodSummaries :
        /\ \E row \in Rows(s.YearlyItems) : row.date.str = Format(s.PeriodStart)
        /\ \E row \in Rows(subs) \ Rows(s.YearlyItems) :
              /\ row.cycle = "yearly"
              /\ row.date.str = Format(s.PeriodStart - 86400)

\* The yearly subscriptions stored at 2025-06-15
June15Rows == { row \in Rows(subs) :
                  row.cycle = "yearly" /\ row.date = Stored(2025, 6, 15) }

\* C5 as stated: with cutoff day 1, a yearly subscription stored at
\* 2025-06-15 is in the summary for (2026, 6), with YearlyTotal equal to its
\* amount, and is not in the summary for (2026, 7).
C5_AsStated ==
    \A s \in GoodSummaries : \A row \in June15Rows :
        s.CutoffDay = 1 =>
            /\ (s.Year = 2026 /\ s.Month = 6) =>
                  (row \in Rows(s.YearlyItems) /\ s.YearlyTotal = row.amount)
            /\ (s.Year = 2026 /\ s.Month = 7) => row \notin Rows(s.YearlyItems)

\* C5 amended: with cutoff day 1, a yearly subscription stored at 2025-06-15
\* is in the summary for (2025, 7), whose period is June 2025, with
\* YearlyTotal equal to its amount when it is the only yearly item, and is in
\* no summary for (2026, 6) or (2026, 7).
C5_Amended ==
    \A s \in GoodSummaries : \A row \in June15Rows :
        s.CutoffDay = 1 =>
            /\ (s.Year = 2025 /\ s.Month = 7) =>
                  /\ row \in Rows(s.YearlyItems)
                  /\ Len(s.YearlyItems) = 1 => s.YearlyTotal = row.amount
            /\ (s.Year = 2026 /\ s.Month \in {6, 7}) => row \notin Rows(s.YearlyItems)

\* C5 witness: the summary for (2025, 7) holds the subscription alone
C5_Witness ==
    \E s \in GoodSummaries : \E row \in June15Rows :
        /\ s.CutoffDay = 1 /\ s.Year = 2025 /\ s.Month = 7
        /\ s.YearlyItems = <<row>>
        /\ s.YearlyTotal = row.amount

\* The last AdvanceRenewalDatesFrom call, and the row of the table with an id
LastRun == advLog[Len(advLog)]
RowOf(id) == CHOOSE row \in Rows(subs) : row.id = id

\* One step of the sequence a renewal date advances along
CycleStep(cycle, date) == IF cycle = "monthly" THEN addMonth(date) ELSE addYear(date)

\* Whether `target` is an element after `date` of the sequence date,
\* CycleStep(date), ... and the element before it is before `today`
RECURSIVE FirstAtOrAfter(_, _, _, _)
FirstAtOrAfter(cycle, date, target, today) ==
    LET next == CycleStep(cycle, date)
    IN  IF next = target THEN date < today
        ELSE IF next > target THEN FALSE
        ELSE FirstAtOrAfter(cycle, next, target, today)

\* C6: a second AdvanceRenewalDatesFrom run with the same reference date
\* changes nothing: after a run that returned no error no valid stored date is
\* before the reference date, and the run after it performs no update.
C6_AdvanceIdempotent ==
    /\ (advLog # << >> /\ ~LastRun.err) =>
          \A row \in Rows(subs) :
              HasGoodDate(row) => Parse(row.date.str) >= TodayOf(LastRun.ref)
    /\ \A i \in 1 .. Len(advLog) - 1 :
          (~advLog[i].err /\ TodayOf(advLog[i + 1].ref) = TodayOf(advLog[i].ref)) =>
              /\ advLog[i + 1].writes = << >>
              /\ ~advLog[i + 1].err
              /\ i + 1 = Len(advLog) => Rows(advLog[i + 1].listed) = Rows(subs)

\* C6 witness: a first run that advanced rows, and a second run with the
\* same reference date that wrote nothing
C6_Witness ==
    /\ Len(advLog) = 2
    /\ ~advLog[1].err /\ advLog[1].writes # << >>
    /\ advLog[2].ref = advLog[1].ref
    /\ advLog[2].writes = << >>

\* C7: for every subscription whose valid stored date is before the reference
\* date, a run that returns no error stores the first date of the sequence
\* stored, stored + 1 cycle, ... that is on or after the reference date: the
\* result is >= the reference date and the element before it is < it. A row a
\* failing run did not reach, and every row not due, keeps its date.
C7_AdvancesToFirstAtOrAfter ==
    advLog # << >> =>
        LET today == TodayOf(LastRun.ref)
        IN  \A old \in Rows(LastRun.listed) :
                LET new == RowOf(old.id)
                    due == HasGoodDate(old) /\ Parse(old.date.str) < today
                    written == \E i \in 1 .. Len(LastRun.writes) : LastRun.writes[i] = old.id
                IN  /\ written => due
                    /\ (due /\ ~LastRun.err) => written
                    /\ ~written => new = old
                    /\ written =>
                          /\ HasGoodDate(new)
                          /\ Parse(new.date.str) >= today
                          /\ FirstAtOrAfter(old.cycle, Parse(old.date.str),
                                            Parse(new.date.str), today)

\* C7 witness: a monthly subscription two months behind the reference date
\* was advanced to exactly the reference date
C7_Witness ==
    /\ advLog # << >>
    /\ ~LastRun.err
    /\ \E old \in Rows(LastRun.listed) :
          /\ old.cycle = "monthly"
          /\ HasGoodDate(old)
          /\ addMonth(addMonth(Parse(old.date.str))) = TodayOf(LastRun.ref)
          /\ RowOf(old.id).date.str = Format(TodayOf(LastRun.ref))

\* C8: advancing a monthly subscription keeps its recurrence day: the day of
\* the advanced date is the stored day, reduced only to the last day of the
\* resulting month when that month is shorter (2026-01-31 advanced with
\* reference 2026-03-15 ends at 2026-03-31).
C8_MonthlyKeepsDay ==
    advLog # << >> =>
        \A old \in Rows(LastRun.listed) :
            LET new == RowOf(old.id).date.str
            IN  (old.cycle = "monthly" /\ HasGoodDate(old)
                   /\ \E i \in 1 .. Len(LastRun.writes) : LastRun.writes[i] = old.id) =>
                    new.d = IF old.date.str.d > DaysIn(new.y, new.m)
                            THEN DaysIn(new.y, new.m)
                            ELSE old.date.str.d

\* C9 as stated: twelve addMonth steps give the date one AddDate(1, 0, 0)
\* gives, for every date that is not a Feb 29.
C9_AsStated ==
    (cal.k = 12 /\ cal.yr # NoTime /\ ~(Month(cal.src) = 2 /\ Day(cal.src) = 29)) =>
        cal.cur = cal.yr

\* C9 amended: twelve addMonth steps give the date one AddDate(1, 0, 0)
\* gives, for every date whose day of the month is at most 28.
C9_Amended ==
    (cal.k = 12 /\ cal.yr # NoTime /\ Day(cal.src) <= 28) => cal.cur = cal.yr

\* C9 witness: from the Jan 28 of a leap year, across its February, both ways
\* end on the Jan 28 a year later
C9_Witness ==
    /\ cal.k = 12 /\ cal.yr # NoTime
    /\ Month(cal.src) = 1 /\ Day(cal.src) = 28 /\ IsLeap(Year(cal.src))
    /\ cal.cur = cal.yr
    /\ Format(cal.yr) = DateText(Year(cal.src) + 1, 1, 28)

\* C10: adding one year keeps month and day, and a Feb 29 that lands on a
\* common year becomes Feb 28 of that year (2024-02-29 gives 2025-02-28).
C10_AddYearKeepsMonthDay ==
    cal.yr # NoTime =>
        LET src == Civil(cal.src)
        IN  Format(cal.yr) =
               (IF src.m = 2 /\ src.d = 29 /\ ~IsLeap(src.y + 1)
                THEN DateText(src.y + 1, 2, 28)
                ELSE DateText(src.y + 1, src.m, src.d))

\* C11: addMonth gives a date in the calendar month directly after the source
\* month (January of the next year after December), on the source's day, or
\* on the last day of that month when the source's day is beyond it: Jan 31
\* gives Feb 28 in a common year and Feb 29 in a leap year.
C11_AddMonthClamps ==
    cal.k = 1 =>
        LET src == Civil(cal.src)
            m == IF src.m = 12 THEN 1 ELSE src.m + 1
            y == IF src.m = 12 THEN src.y + 1 ELSE src.y
            new == Format(cal.cur)
        IN  /\ new.y = y /\ new.m = m
            /\ new.d = IF src.d > DaysIn(y, m) THEN DaysIn(y, m) ELSE src.d
            /\ ~ParseFails(new)
            /\ cal.cur % 86400 = 0
            /\ (src.m = 1 /\ src.d = 31) => new = DateText(src.y, 2, IF IsLeap(src.y) THEN 29 ELSE 28)

\* C11 witness: Jan 31 of a common year became Feb 28 of it
C11_Witness ==
    /\ cal.k = 1
    /\ Month(cal.src) = 1 /\ Day(cal.src) = 31 /\ ~IsLeap(Year(cal.src))
    /\ Format(cal.cur) = DateText(Year(cal.src), 2, 28)

\* C12: a run of AdvanceRenewalDatesFrom writes no subscription whose stored
\* date is on or after the reference date (the date of the reference day
\* itself included, whatever the reference's time of day) and none whose
\* stored date is missing or unparsable: their rows stay as they were.
C12_NotDueUntouched ==
    advLog # << >> =>
        \A old \in Rows(LastRun.listed) :
            (\/ ~old.date.valid
             \/ ParseFails(old.date.str)
             \/ DateTextLeq(Format(LastRun.ref), old.date.str)) =>
                /\ \A i \in 1 .. Len(LastRun.writes) : LastRun.writes[i] # old.id
                /\ RowOf(old.id) = old

\* C12 witness: a run in the afternoon that advanced a row left alone the row
\* stored on the reference day, the row with no date and the rows with an
\* unparsable date
C12_Witness ==
    /\ advLog # << >>
    /\ LastRun.ref % 86400 # 0
    /\ LastRun.writes # << >>
    /\ \E old \in Rows(LastRun.listed) :
          old.date.valid /\ old.date.str = Format(LastRun.ref) /\ RowOf(old.id) = old
    /\ \E old \in Rows(LastRun.listed) : ~old.date.valid /\ RowOf(old.id) = old
    /\ \E old \in Rows(LastRun.listed) :
          old.date.valid /\ old.date.str = Garbage /\ RowOf(old.id) = old
    /\ \E old \in Rows(LastRun.listed) :
          old.date.valid /\ old.date.str.form = "YYYY-MM-DD"
             /\ ParseFails(old.date.str) /\ RowOf(old.id) = old

\* C13: when the update of one subscription fails, the run still updates
\* every other due subscription: after a run that returned the error, at most
\* the one subscription whose update failed is still due.
C13_ContinuesAfterFailure ==
    (advLog # << >> /\ LastRun.err) =>
        LET today == TodayOf(LastRun.ref)
            due == { old \in Rows(LastRun.listed) :
                        HasGoodDate(old) /\ Parse(old.date.str) < today }
            written == { LastRun.writes[i] : i \in 1 .. Len(LastRun.writes) }
        IN  Cardinality({ old \in due : old.id \notin written }) <= 1

\* C14: once the program has started (app.New, tui.New, Model.Init and the
\* first subscriptionsLoadedMsg), no subscription with a valid stored date
\* has a renewal date before today, in the table or in the list shown.
C14_AdvancedAtStartup ==
    tuiModel.pc = "list" =>
        \A row \in Rows(subs) \cup Rows(tuiModel.subscriptions) :
            HasGoodDate(row) => Parse(row.date.str) >= TodayOf(now)

\* C15: whatever writes have happened (service Create and Update, the add
\* and edit forms, the import, the advancer), every stored subscription has
\* a positive amount, a cycle of monthly or yearly, and a date that is
\* present and parses
C15_StoredRowsValid ==
    \A i \in 1 .. Len(subs) :
        /\ subs[i].amount > 0
        /\ subs[i].cycle \in {"monthly", "yearly"}
        /\ subs[i].date.valid
        /\ ~ParseFails(subs[i].date.str)

\* C16: a subscription whose renewal date is NULL or does not parse never
\* makes CalculateForMonth fail; it is left out of MonthlyItems, YearlyItems
\* and the totals, and the summary is the one the table without that
\* subscription gives.
C16_BadDatesLeftOut ==
    \A s \in Summaries :
        s.Month \in 1 .. 12 =>
            /\ ~s.err
            /\ \A r \in Rows(s.MonthlyItems) \cup Rows(s.YearlyItems) : HasGoodDate(r)
            /\ s = CalculateForMonthResult(SelectSeq(subs, HasGoodDate), config,
                                           s.Year, s.Month)

\* A summary with items, made on a table that holds a row without a date,
\* a row whose date is no date text and a row whose date is no calendar date
C16_Witness ==
    /\ \E r \in Rows(subs) : ~r.date.valid
    /\ \E r \in Rows(subs) : r.date.valid /\ r.date.str = Garbage
    /\ \E r \in Rows(subs) : r.date.valid /\ r.date.str = DateText(FirstYear, 2, 30)
    /\ \E s \in GoodSummaries : s.MonthlyItems # << >> /\ s.MonthlyTotal > 0

\* C17: after any sequence of SetMonthCutoffDay calls, imports and raw
\* writes to the config table, GetMonthCutoffDay returns a day in 1..28: the
\* stored value when that is an integer in 1..28, the default 1 otherwise.
\* SetMonthCutoffDay with a day outside 1..28 fails and leaves the stored
\* value as it was; with a day in 1..28 it succeeds and GetMonthCutoffDay
\* then returns that day.
C17_CutoffDayAlwaysValid ==
    /\ [](LET value == config[ConfigKeyMonthCutoffDay]
          IN  /\ GetMonthCutoffDay(config) \in 1 .. 28
              /\ IF value.kind = "number" /\ value.n \in 1 .. 28
                 THEN GetMonthCutoffDay(config) = value.n
                 ELSE GetMonthCutoffDay(config) = 1)
    /\ [][\A day \in SetDays :
             SetMonthCutoffDay(day) =>
                 IF day \in 1 .. 28
                 THEN ret' = "" /\ GetMonthCutoffDay(config') = day
                 ELSE ret' # "" /\ config' = config]_vars

\* A day out of range was written to the table by an import or a raw write,
\* and a SetMonthCutoffDay call has just been refused
C17_Witness ==
    /\ config[ConfigKeyMonthCutoffDay] = NumberText(29)
    /\ ret = "cutoff day must be between 1 and 28"

\* C18: CalculateForMonth called with a month outside 1..12 (0, 13, a
\* negative month) returns an error and no summary, for every year and
\* whatever the config and the table hold.
C18_InvalidMonthRejected ==
    \A s \in Summaries :
        s.Month \notin 1 .. 12 =>
            /\ s.err
            /\ DOMAIN s = {"err", "Year", "Month"}
            /\ ret = "invalid month"

\* A call with month -1 on a table with rows has returned
C18_Witness ==
    /\ subs # << >>
    /\ \E s \in Summaries : s.Month = 0 - 1 /\ s.err

\* The decimal numeral of a number from 0 to 99
Numeral(n) ==
    IF n < 10 THEN <<DecimalDigits[n + 1]>>
    ELSE <<DecimalDigits[(n \div 10) + 1], DecimalDigits[(n % 10) + 1]>>

\* C19: ParseMonth returns n for the numeral of an n in 1..12 and the month
\* number for an English month name or its three-letter abbreviation, and
\* fails with an error on every other text.
C19_ParseMonthContract ==
    monthArg.called =>
        IF \E n \in 1 .. 12 : monthArg.text = Numeral(n)
        THEN monthArg.err = "" /\ monthArg.text = Numeral(monthArg.month)
        ELSE IF \E i \in 1 .. 12 :
                   monthArg.text \in {MonthString[i], SubSeq(MonthString[i], 1, 3)}
        THEN /\ monthArg.err = ""
             /\ monthArg.month \in 1 .. 12
             /\ monthArg.text \in {MonthString[monthArg.month],
                                   SubSeq(MonthString[monthArg.month], 1, 3)}
        ELSE monthArg.err # ""

\* The salary the config table holds, 0 when it holds none or no number
StoredSalary ==
    IF config[ConfigKeyMonthlySalary].kind = "number"
    THEN config[ConfigKeyMonthlySalary].n
    ELSE 0

\* C20 as stated: with a salary above 0 the summary has MonthlySalary =
\* salary and Remaining = salary - GrandTotal; with the salary 0 Remaining is
\* unset, not a zero value: the summary carries no Remaining.
C20_RemainingUnsetWithoutSalary ==
    \A s \in GoodSummaries :
        IF StoredSalary > 0
        THEN s.MonthlySalary = StoredSalary /\ s.Remaining = StoredSalary - s.GrandTotal
        ELSE "Remaining" \notin DOMAIN s

\* C20, amended: with a salary above 0 the summary has MonthlySalary = salary
\* and Remaining = salary - GrandTotal, negative when over budget; with no
\* salary or the salary 0 Remaining is not computed: MonthlySalary and
\* Remaining are both the zero value 0, whatever GrandTotal is.
C20_RemainingFromSalary ==
    \A s \in GoodSummaries :
        IF StoredSalary > 0
        THEN s.MonthlySalary = StoredSalary /\ s.Remaining = StoredSalary - s.GrandTotal
        ELSE s.MonthlySalary = 0 /\ s.Remaining = 0

\* The documented scenario: salary 3000.00 and a grand total of 25.98 leave
\* 2974.02
C20_Witness ==
    \E s \in GoodSummaries :
        /\ s.MonthlySalary = 300000
        /\ s.GrandTotal = 2598
        /\ s.Remaining = 297402

\* The amounts of the first n rows, added up
RECURSIVE AmountsUpTo(_, _)
AmountsUpTo(rows, n) ==
    IF n = 0 THEN 0 ELSE AmountsUpTo(rows, n - 1) + rows[n].amount

\* C21: in every summary MonthlyTotal is the sum of the amounts of
\* MonthlyItems, YearlyTotal the sum of the amounts of YearlyItems, GrandTotal
\* = MonthlyTotal + YearlyTotal and AverageMonthly = MonthlyTotal +
\* YearlyTotal / 12 (here in twelfths); with no item all four are 0.
C21_TotalsAddUp ==
    \A s \in GoodSummaries :
        /\ s.MonthlyTotal = AmountsUpTo(s.MonthlyItems, Len(s.MonthlyItems))
        /\ s.YearlyTotal = AmountsUpTo(s.YearlyItems, Len(s.YearlyItems))
        /\ s.GrandTotal = s.MonthlyTotal + s.YearlyTotal
        /\ s.AverageMonthlyTwelfths = 12 * s.MonthlyTotal + s.YearlyTotal
        /\ (s.MonthlyItems = << >> /\ s.YearlyItems = << >>) =>
              /\ s.MonthlyTotal = 0
              /\ s.YearlyTotal = 0
              /\ s.GrandTotal = 0
              /\ s.AverageMonthlyTwelfths = 0

\* A summary with two monthly items and a yearly item
C21_Witness ==
    \E s \in GoodSummaries :
        /\ Len(s.MonthlyItems) = 2
        /\ Len(s.YearlyItems) = 1
        /\ s.GrandTotal = 1599 + 999 + 13900

\* What a subscription is apart from its id
Fields(row) ==
    [name |-> row.name, amount |-> row.amount, currency |-> row.currency,
     cycle |-> row.cycle, date |-> row.date]

\* How many rows of the table are the subscription f
CountOf(table, f) == Cardinality({ i \in 1 .. Len(table) : Fields(table[i]) = f })

\* The last call was a successful import of the text the caller exported,
\* with the password it was exported with
Restored ==
    /\ lastSync.op = "import"
    /\ lastSync.exported
    /\ lastSync.password = lastSync.encrypted.password
    /\ ret = ""

\* C22: after a successful ImportEncrypted of what ExportEncrypted produced
\* with the same password, the stored subscriptions are exactly the exported
\* ones (name, amount, currency, cycle and date), every subscription stored
\* before the import is gone, and every exported config value reads back.
C22_ImportRestoresExport ==
    Restored =>
        /\ Len(subs) = Len(lastSync.source.subs)
        /\ \A r \in Rows(subs) \cup Rows(lastSync.source.subs) :
              CountOf(subs, Fields(r)) = CountOf(lastSync.source.subs, Fields(r))
        /\ \A r \in Rows(subs), old \in Rows(lastSync.before.subs) : r.id # old.id
        /\ \A k \in ConfigKeys :
              lastSync.source.config[k] # NoValue => config[k] = lastSync.source.config[k]

\* An export of a subscription without a date was imported into a database
\* that held a subscription and whose config had been changed since
C22_Witness ==
    /\ Restored
    /\ \E r \in Rows(subs) : ~r.date.valid
    /\ lastSync.before.subs # << >>
    /\ lastSync.before.config # config

\* C23: ImportEncrypted with a password other than the one the text was
\* exported with returns an error and leaves the subscriptions and the config
\* as they were before the call.
C23_WrongPasswordChangesNothing ==
    (/\ lastSync.op = "import"
     /\ lastSync.encrypted.sealed
     /\ lastSync.password # lastSync.encrypted.password) =>
        /\ ret # ""
        /\ subs = lastSync.before.subs
        /\ config = lastSync.before.config

\* The caller's own export of a database with a subscription was imported
\* with another password
C23_Witness ==
    /\ lastSync.op = "import"
    /\ lastSync.exported
    /\ lastSync.password # lastSync.encrypted.password
    /\ lastSync.encrypted.jsonData.Subscriptions # << >>
    /\ lastSync.before.subs # << >>

\* C24: ExportService.Export called with a format other than csv or json
\* returns an error, whatever the stored subscriptions are.
C24_InvalidFormatRejected ==
    (exportBuf.called /\ exportBuf.format \notin {"csv", "json"}) => ret # ""

\* C25: the matcher and the advancer agree on where a day of the month falls
\* in a month: the occurrence calculateMonthlyRenewalInPeriod projects into a
\* month for the day d in 1..31 has the day min(d, last day of the month),
\* and that is the date addMonth makes of the date with day d in the month
\* before.
C25_MatcherAgreesWithAdvancer ==
    cal.proj # NoProj =>
        LET next == NextLabel(Year(cal.src), Month(cal.src))
            last == DaysIn(next[1], next[2])
            day == IF cal.proj.d > last THEN last ELSE cal.proj.d
        IN  /\ cal.proj.t # NoTime
            /\ Civil(cal.proj.t) = [y |-> next[1], m |-> next[2], d |-> day]
            /\ (cal.k = 1 /\ cal.proj.d = Day(cal.src)) => cal.proj.t = cal.cur

\* The 31st of January of a common year: both make it the 28th of February
C25_Witness ==
    /\ cal.k = 1
    /\ Month(cal.src) = 1 /\ Day(cal.src) = 31 /\ ~IsLeap(Year(cal.src))
    /\ cal.proj.d = 31
    /\ cal.proj.t = cal.cur
    /\ Day(cal.cur) = 28

\* The load commands of the spending view in flight: started and not yet
\* taken by Update
InFlight == tuiModel.tasks + Len(tuiModel.inbox)

\* What the spending view shows of a summary
ShownOf(v) ==
    [monthlySubs |-> v.monthlySubs, yearlySubs |-> v.yearlySubs,
     monthlyTotal |-> v.monthlyTotal, yearlyTotal |-> v.yearlyTotal,
     cutoffDay |-> v.cutoffDay, periodStart |-> v.periodStart,
     periodEnd |-> v.periodEnd, monthlySalary |-> v.monthlySalary,
     remaining |-> v.remaining]

\* C26: in the spending view at most one load of CalculateForMonth is in
\* flight at any time: no load is started before the one before it has
\* delivered its spendingLoadedMsg or spendingErrMsg.
C26_OneLoadInFlight == InFlight <= 1

\* C27: whenever the spending view is not loading and no load is in flight,
\* the period and the totals it shows are those CalculateForMonth computes
\* for the year and month it shows; the month shown is always in 1..12.
C27_ShownIsOfShownMonth ==
    tuiModel.spendingView.open =>
        /\ tuiModel.spendingView.month \in 1 .. 12
        /\ (~tuiModel.spendingView.loading /\ InFlight = 0) =>
              LET v == tuiModel.spendingView
                  msg == loadSpendingMsg(subs, config, v.year, v.month)
              IN  ShownOf(v) = ShownOf(msg)


\* C28: in the list view, whenever the list holds a subscription the cursor
\* is an index of it, 0 <= cursor < len(subscriptions), after any navigation
\* keys, deletions, imports and reloads; "e" and "d" never index the list
\* out of range.
C28_CursorInRange ==
    /\ tuiModel.pc # "panic"
    /\ (tuiModel.pc \in {"list", "edit"} /\ tuiModel.subscriptions # << >>) =>
          ~CursorOutOfRange(tuiModel)

\* C29: ImportEncrypted is all-or-nothing for the stored subscriptions: when
\* it returns an error after the decryption succeeded, the subscriptions
\* stored before the call are still stored and none of the payload is.
C29_ImportAllOrNothing ==
    (/\ lastSync.op = "import"
     /\ ret # ""
     /\ Decrypt(lastSync.encrypted, lastSync.password).err = "") =>
        subs = lastSync.before.subs

\* C30: CalculateForCurrentMonth selects the period that contains today:
\* for every current date and every cutoff day in 1..28 the call succeeds and
\* the clock lies in [PeriodStart, PeriodEnd] of the summary; its label is
\* the month after the clock's when the clock's day is the cutoff day or
\* later (January of the next year after December), else the clock's month.
C30_CurrentPeriodHoldsToday ==
    \A s \in Summaries :
        /\ ~s.err
        /\ s.CutoffDay \in 1 .. 28
        /\ s.PeriodStart <= now
        /\ now <= s.PeriodEnd
        /\ <<s.Year, s.Month>> =
              IF Day(now) < s.CutoffDay THEN <<Year(now), Month(now)>>
              ELSE IF Month(now) = 12 THEN <<Year(now) + 1, 1>>
              ELSE <<Year(now), Month(now) + 1>>

\* The call was made on the cutoff day itself, in a December, with a cutoff
\* day other than the default, in the last second of the day
C30_Witness ==
    \E s \in Summaries :
        /\ Month(now) = 12
        /\ Day(now) = s.CutoffDay
        /\ s.CutoffDay = 15
        /\ now % 86400 = 86399
        /\ s.Year = Year(now) + 1
        /\ s.Month = 1

====
